---------------------------- MODULE Spec2Model ----------------------------
(***************************************************************************)
(* Model of ai_arduno_speech.py: the chunked serial transport              *)
(* (send_to_arduino) and the chat loop (main_loop) that feeds it; and of   *)
(* the applet of toolbar_applet.py, response_window.py and ai_core.py: the *)
(* worker thread that streams a reply into the window.                     *)
(*                                                                         *)
(* A Python str is a sequence of Unicode code points (naturals).  The      *)
(* serial channel is observed through io, the log of the calls made on     *)
(* the handle (write, flush, close) and of the time.sleep calls, in        *)
(* program order.                                                          *)
(***************************************************************************)
EXTENDS Integers, Sequences, FiniteSets, TLC

(***************************************************************************)
(* Program constants.                                                      *)
(***************************************************************************)
CHUNK_SIZE == 200
InterFrameDelayMs == 50
SettleDelayMs == 2000

(***************************************************************************)
(* Bounds of the model.                                                    *)
(***************************************************************************)
MaxChunks == 2
MaxTurns == 1

(***************************************************************************)
(* Code points and string literals of the program.                         *)
(***************************************************************************)
LF == 10
SPACE == 32

\* The code points for which str.isspace() is true: what str.strip() removes.
Whitespace ==
    {9, 10, 11, 12, 13, 28, 29, 30, 31, 32, 133, 160, 5760}
        \cup (8192..8202) \cup {8232, 8233, 8239, 8287, 12288}

STR_quit == <<113, 117, 105, 116>>
STR_exit == <<101, 120, 105, 116>>
STR_stop == <<115, 116, 111, 112>>
STR_news == <<110, 101, 119, 115>>
STR_update == <<117, 112, 100, 97, 116, 101>>

QuitCommands == {STR_quit, STR_exit, STR_stop}

\* Faulty variant of NewsCommands: "news" is taken for a chat message.
NewsCommandsUpdateOnly == {STR_update}

NewsCommands == {STR_news, STR_update}

(***************************************************************************)
(* str methods used by the program.                                        *)
(***************************************************************************)
RECURSIVE FirstNonWs(_, _)
FirstNonWs(s, i) ==
    IF i > Len(s) THEN i
    ELSE IF s[i] \notin Whitespace THEN i
    ELSE FirstNonWs(s, i + 1)

RECURSIVE LastNonWs(_, _)
LastNonWs(s, i) ==
    IF i < 1 THEN i
    ELSE IF s[i] \notin Whitespace THEN i
    ELSE LastNonWs(s, i - 1)

\* Faulty variant of Strip: lstrip() only.
StripLeftOnly(s) == SubSeq(s, FirstNonWs(s, 1), Len(s))

\* s.strip()
Strip(s) == SubSeq(s, FirstNonWs(s, 1), LastNonWs(s, Len(s)))

\* s.replace('\n', ' ')
ReplaceNewlines(s) == [i \in 1..Len(s) |-> IF s[i] = LF THEN SPACE ELSE s[i]]

\* s.lower(), on the ASCII letters
Lower(s) == [i \in 1..Len(s) |-> IF s[i] \in 65..90 THEN s[i] + 32 ELSE s[i]]

\* text_content.strip().replace('\n', ' ')
Normalize(s) == ReplaceNewlines(Strip(s))

\* Faulty variant of Slice: the slice stops one character early.
SliceShort(s, lo, hi) ==
    SubSeq(s, lo + 1, (IF hi > Len(s) THEN Len(s) ELSE hi) - 1)

\* s[lo:hi] for 0 <= lo <= hi (0-based, hi exclusive, clipped to the length)
Slice(s, lo, hi) == SubSeq(s, lo + 1, IF hi > Len(s) THEN Len(s) ELSE hi)

\* The number of bytes of one code point in UTF-8.
Utf8Width(c) ==
    IF c < 128 THEN 1 ELSE IF c < 2048 THEN 2 ELSE IF c < 65536 THEN 3 ELSE 4

\* len(s.encode('utf-8'))
RECURSIVE Utf8LenRange(_, _, _)
Utf8LenRange(s, lo, hi) ==
    IF lo > hi THEN 0
    ELSE IF lo = hi THEN Utf8Width(s[lo])
    ELSE LET mid == (lo + hi) \div 2
         IN  Utf8LenRange(s, lo, mid) + Utf8LenRange(s, mid + 1, hi)

Utf8Len(s) == Utf8LenRange(s, 1, Len(s))

(***************************************************************************)
(* send_to_arduino: which frame follows which.                             *)
(***************************************************************************)
\* Faulty variant of SinglePath: the boundary is exclusive.
SinglePathExclusive(clean) == Len(clean) < CHUNK_SIZE

\* Faulty variant of SinglePath: an empty text takes the multi-frame path.
SinglePathNonEmpty(clean) == 0 < Len(clean) /\ Len(clean) <= CHUNK_SIZE

\* len(clean_text) <= CHUNK_SIZE
SinglePath(clean) == Len(clean) <= CHUNK_SIZE

\* Faulty variant of NextIndex: the loop steps over one character.
NextIndexSkip(mode, i) == IF mode = "START" THEN CHUNK_SIZE + 1 ELSE i + CHUNK_SIZE

\* The value of i for the frame after a START or APPEND frame:
\* range(CHUNK_SIZE, len(clean_text), CHUNK_SIZE)
NextIndex(mode, i) == IF mode = "START" THEN CHUNK_SIZE ELSE i + CHUNK_SIZE

\* Faulty variant of NextMode: the terminator frame is forgotten.
NextModeNoEnd(mode, i, n) ==
    CASE mode = "SINGLE" -> "DONE"
      [] mode = "END" -> "DONE"
      [] OTHER -> IF NextIndex(mode, i) < n THEN "APPEND" ELSE "DONE"

\* The frame written after a frame of the given mode, "DONE" after the last.
NextMode(mode, i, n) ==
    CASE mode = "SINGLE" -> "DONE"
      [] mode = "END" -> "DONE"
      [] OTHER -> IF NextIndex(mode, i) < n THEN "APPEND" ELSE "END"

\* The payload of the frame of the given mode.
Payload(mode, clean, i) ==
    CASE mode = "SINGLE" -> clean
      [] mode = "START" -> Slice(clean, 0, CHUNK_SIZE)
      [] mode = "APPEND" -> Slice(clean, i, i + CHUNK_SIZE)
      [] OTHER -> <<>>

\* Faulty variant of SerUsable: the guard is missing.
SerUsableAlways(s) == TRUE

\* "if not ser: return": the handle is an object (open or closed), not None.
SerUsable(s) == s # "none"


(***************************************************************************)
(* State.                                                                  *)
(***************************************************************************)
VARIABLES
    pc,        \* position of main_loop (or of the caller of send_to_arduino);
               \* "gtk_main" while the applet runs Gtk.main()
    ser,       \* the serial handle: "none" (None), "open", "closed"
    messages,  \* the conversation history, a sequence of [role, content]
    saved,     \* the messages in the history file, when it holds valid JSON
    user_input,
    heard,     \* how the last get_user_speech call ended; "none" before the first
    stream,    \* the chunks of response_stream, as the producer will yield them
    pos,       \* how many chunks of stream the for loop has taken
    assistant_response_full,
    displayed, \* what was printed after "AI: " in this turn
    turns,     \* inputs that led to a send so far
    sPc,       \* position inside send_to_arduino: idle, entry, write, flush, sleep
    sPrefix,   \* its argument prefix
    sText,     \* its argument text_content
    sRet,      \* where its caller resumes
    sClean,    \* its local clean_text
    sMode,     \* the frame it is at: SINGLE, START, APPEND, END
    sI,        \* its loop variable i
    io,        \* the calls made on the handle and the sleeps, in program order
    nmsg,      \* send_to_arduino calls that reached the channel so far
    failures,  \* channel errors raised so far
    reported,  \* "Error sending to Arduino" lines printed so far
    args,      \* the command line: [use_arduino, history, prompt, use_voice]
    history_file, \* the file at args.history: "missing", "corrupt", "json"
    prompt_file,  \* the file at args.prompt: "missing", "text"
    warnings,  \* "WARNING: Unreadable history" lines printed so far
    \* toolbar_applet.py and response_window.py
    main_window,           \* 0 (None) or the identity of the ResponseWindow
    windows,               \* ResponseWindow objects created so far
    wWindow,               \* the worker's argument window
    is_generating,
    stop_generation_event, \* 0 (None) or the identity of a threading.Event
    events_set,            \* the identities of the events that are set
    generations,           \* generations started so far
    wPc,                   \* position of the do_ai_stream thread
    wStopEvent,            \* its argument stop_event
    wQuestion,             \* its argument question
    wStream,               \* the chunks ai_model.ask() will yield
    wPos,                  \* how many of them the for loop has pulled
    full_response,
    was_stopped,
    idle,                  \* the callbacks queued with GObject.idle_add, FIFO
    log,                   \* the window's text buffer: [text, tag] insertions
    conversation_history,  \* of the window
    inputs_enabled,        \* input entry sensitive, "send" button shown
    ai_model_llm,          \* ai_model.llm: "loaded" or "none" (None)
    stopped_at,            \* history variable: what the worker had delivered
                           \* and pulled when its stop event was set
    \* AIModel.ask of ai.py and of ai_core.py
    ask_module,            \* "ai" or "ai_core"; "off" while no ask() is modelled
    self_llm,              \* self.llm: "loaded" or "none" (None)
    generation_params,     \* the argument of ai.py's ask: [key, value] items
    config,                \* self.config["generation_params"]
    final_gen_params,
    aPc,                   \* position of the generator
    aI,                    \* items of generation_params the for loop has taken
    aStream,               \* what the engine will do: [raises, chunks]
    aPos,                  \* chunks of response_stream the for loop has taken
    yielded,               \* the fragments the generator has yielded
    engine_calls,          \* create_chat_completion calls made
    \* geocode_places of news_study.py
    places,                \* its argument
    gPc,                   \* position in geocode_places
    gI,                    \* places the for loop has taken
    p_clean,
    coords,                \* the result: cleaned name -> <<lat, lon>>
    cache,                 \* the geocode table: place -> [lat, lon, resolved]
    attempts,
    backoff,               \* in seconds
    success,
    calls                  \* for the place at hand: cache reads and writes,
                           \* geocoder calls and sleeps, in program order

mainVars ==
    <<messages, saved, user_input, heard, stream, pos, assistant_response_full,
      displayed, turns>>

sendVars == <<sPc, sPrefix, sText, sRet, sClean, sMode, sI>>

startVars == <<args, history_file, prompt_file, warnings>>

appletVars ==
    <<main_window, windows, wWindow, is_generating, stop_generation_event, events_set, generations, wPc,
      wStopEvent, wQuestion, wStream, wPos, full_response, was_stopped, idle,
      log, conversation_history, inputs_enabled, ai_model_llm, stopped_at>>

askVars ==
    <<ask_module, self_llm, generation_params, config, final_gen_params, aPc,
      aI, aStream, aPos, yielded, engine_calls>>

geoVars ==
    <<places, gPc, gI, p_clean, coords, cache, attempts, backoff, success,
      calls>>

vars ==
    <<pc, ser, messages, saved, user_input, heard, stream, pos,
      assistant_response_full, displayed, turns, sPc, sPrefix, sText, sRet,
      sClean, sMode, sI, io, nmsg, failures, reported, args, history_file,
      prompt_file, warnings, is_generating, stop_generation_event, events_set, generations,
      wPc, wStopEvent, wQuestion, wStream, wPos, full_response, was_stopped,
      idle, log, conversation_history, inputs_enabled, ai_model_llm,
      stopped_at, main_window, windows, wWindow, askVars, geoVars>>

(***************************************************************************)
(* The log of the channel.                                                 *)
(***************************************************************************)
Event(op, ok, mode, payload, ms) ==
    [op |-> op, msg |-> nmsg, ok |-> ok, prefix |-> sPrefix, mode |-> mode,
     payload |-> payload, ms |-> ms]

\* ser.write(f"{prefix}<marker>:{payload}\n".encode('utf-8'))
WriteEvent(ok) == Event("write", ok, sMode, Payload(sMode, sClean, sI), 0)

\* ser.flush()
FlushEvent(ok) == Event("flush", ok, sMode, <<>>, 0)

\* time.sleep(0.05)
SleepEvent == Event("sleep", TRUE, sMode, <<>>, InterFrameDelayMs)

\* The marker between the prefix and the colon.
Marker(mode) ==
    CASE mode = "START" -> <<95, 83, 84, 65, 82, 84>>
      [] mode = "APPEND" -> <<95, 65, 80, 80, 69, 78, 68>>
      [] mode = "END" -> <<95, 69, 78, 68>>
      [] OTHER -> <<>>

PrefixChars(prefix) ==
    IF prefix = "USER" THEN <<85, 83, 69, 82>> ELSE <<71, 69, 77, 77, 65>>

\* f"{prefix}<marker>:{payload}\n"
FrameLine(e) ==
    PrefixChars(e.prefix) \o Marker(e.mode) \o <<58>> \o e.payload \o <<LF>>

(***************************************************************************)
(* send_to_arduino(ser, prefix, text_content)                              *)
(***************************************************************************)
\* The call: the arguments are bound and the body is entered.
Call(prefix, text, ret) ==
    /\ pc' = "in_send"
    /\ sPc' = "entry"
    /\ sPrefix' = prefix
    /\ sText' = text
    /\ sRet' = ret
    /\ UNCHANGED <<sClean, sMode, sI>>

\* The return to the caller.
Return ==
    /\ sPc' = "idle"
    /\ pc' = sRet

\* "if not ser: return", else clean_text and the choice of the path.
SendEntry ==
    /\ sPc = "entry"
    /\ IF ~SerUsable(ser)
       THEN /\ Return
            /\ UNCHANGED <<sClean, sMode, sI, nmsg>>
       ELSE /\ sClean' = Normalize(sText)
            /\ sMode' = IF SinglePath(Normalize(sText)) THEN "SINGLE" ELSE "START"
            /\ sI' = 0
            /\ sPc' = "write"
            /\ nmsg' = nmsg + 1
            /\ pc' = pc
    /\ UNCHANGED <<ser, sPrefix, sText, sRet, io, failures, reported>>
    /\ UNCHANGED mainVars
    /\ UNCHANGED startVars
    /\ UNCHANGED appletVars
    /\ UNCHANGED askVars
    /\ UNCHANGED geoVars

\* Faulty variant of HandleSerialException: the failed step is tried again.
HandleSerialExceptionRetry ==
    /\ reported' = reported + 1
    /\ ser' = ser
    /\ pc' = pc
    /\ UNCHANGED sPc

\* Faulty variant of HandleSerialException: the handler closes the handle.
HandleSerialExceptionClose ==
    /\ reported' = reported + 1
    /\ ser' = "closed"
    /\ Return

\* Faulty variant of HandleSerialException: the error leaves the function.
HandleSerialExceptionRaise ==
    /\ reported' = reported
    /\ ser' = ser
    /\ sPc' = "idle"
    /\ pc' = "crashed"

\* "except serial.SerialException as e: print(...)", then the function returns.
HandleSerialException ==
    /\ reported' = reported + 1
    /\ ser' = ser
    /\ Return

\* ser.write(...) returns.
SendWrite ==
    /\ sPc = "write"
    /\ io' = Append(io, WriteEvent(TRUE))
    /\ sPc' = "flush"
    /\ UNCHANGED <<pc, ser, sPrefix, sText, sRet, sClean, sMode, sI, nmsg,
                   failures, reported>>
    /\ UNCHANGED mainVars
    /\ UNCHANGED startVars
    /\ UNCHANGED appletVars
    /\ UNCHANGED askVars
    /\ UNCHANGED geoVars

\* ser.write(...) raises serial.SerialException.
SendWriteFail ==
    /\ sPc = "write"
    /\ ser = "open"
    /\ failures' = failures + 1
    /\ io' = Append(io, WriteEvent(FALSE))
    /\ HandleSerialException
    /\ UNCHANGED <<sPrefix, sText, sRet, sClean, sMode, sI, nmsg>>
    /\ UNCHANGED mainVars
    /\ UNCHANGED startVars
    /\ UNCHANGED appletVars
    /\ UNCHANGED askVars
    /\ UNCHANGED geoVars

\* The next iteration of the range loop, or the END frame after it.
Advance ==
    /\ sPc' = "write"
    /\ sMode' = NextMode(sMode, sI, Len(sClean))
    /\ sI' = NextIndex(sMode, sI)

\* Faulty variant of AfterFlush: the next frame is written without the delay.
AfterFlushNoSleep == Advance

\* What follows the flush of a frame that is not the last one.
AfterFlush ==
    /\ sPc' = "sleep"
    /\ UNCHANGED <<sMode, sI>>

\* ser.flush() returns.
SendFlush ==
    /\ sPc = "flush"
    /\ io' = Append(io, FlushEvent(TRUE))
    /\ IF NextMode(sMode, sI, Len(sClean)) = "DONE"
       THEN /\ Return
            /\ UNCHANGED <<sMode, sI>>
       ELSE /\ AfterFlush
            /\ pc' = pc
    /\ UNCHANGED <<ser, sPrefix, sText, sRet, sClean, nmsg, failures, reported>>
    /\ UNCHANGED mainVars
    /\ UNCHANGED startVars
    /\ UNCHANGED appletVars
    /\ UNCHANGED askVars
    /\ UNCHANGED geoVars

\* ser.flush() raises serial.SerialException.
SendFlushFail ==
    /\ sPc = "flush"
    /\ ser = "open"
    /\ failures' = failures + 1
    /\ io' = Append(io, FlushEvent(FALSE))
    /\ HandleSerialException
    /\ UNCHANGED <<sPrefix, sText, sRet, sClean, sMode, sI, nmsg>>
    /\ UNCHANGED mainVars
    /\ UNCHANGED startVars
    /\ UNCHANGED appletVars
    /\ UNCHANGED askVars
    /\ UNCHANGED geoVars

\* time.sleep(0.05), then the loop goes on.
SendSleep ==
    /\ sPc = "sleep"
    /\ io' = Append(io, SleepEvent)
    /\ Advance
    /\ UNCHANGED <<pc, ser, sPrefix, sText, sRet, sClean, nmsg, failures,
                   reported>>
    /\ UNCHANGED mainVars
    /\ UNCHANGED startVars
    /\ UNCHANGED appletVars
    /\ UNCHANGED askVars
    /\ UNCHANGED geoVars

SendNext ==
    \/ SendEntry
    \/ SendWrite
    \/ SendWriteFail
    \/ SendFlush
    \/ SendFlushFail
    \/ SendSleep

(***************************************************************************)
(* The texts the model is run on.  A text has a core of n characters with  *)
(* no whitespace at its ends, whose characters differ with their position, *)
(* so that a lost, repeated or moved slice shows; it may hold newlines, or *)
(* characters of two and three bytes, and may be padded with whitespace.   *)
(***************************************************************************)
Offsets == {0, 1, 50, CHUNK_SIZE - 1}

TextLengths == {k * CHUNK_SIZE + d : k \in 0..MaxChunks, d \in Offsets}

Styles == {"ascii", "newlines", "wide"}

CoreChar(i, n, style) ==
    IF style = "newlines" /\ i % 7 = 0 /\ i < n THEN LF
    ELSE IF style = "wide" /\ i % 2 = 0 THEN 233 + (i % 20)
    ELSE IF style = "wide" /\ i % 3 = 0 THEN 8364
    ELSE 33 + (i % 94)

Core(n, style) == [i \in 1..n |-> CoreChar(i, n, style)]

MkText(n, style, pad) ==
    IF pad THEN <<SPACE, LF>> \o Core(n, style) \o <<9, LF, SPACE>>
    ELSE Core(n, style)

\* Every string of at most MaxSmallLen characters over a small alphabet:
\* a space, a newline, a carriage return, a letter.
MaxSmallLen == 3

SmallAlphabet == {SPACE, LF, 13, 97}

SmallStrings == UNION {[1..n -> SmallAlphabet] : n \in 0..MaxSmallLen}

SendTexts ==
    {MkText(n, style, pad) : n \in TextLengths, style \in Styles, pad \in BOOLEAN}
        \cup SmallStrings

Prefixes == {"USER", "GEMMA"}

(***************************************************************************)
(* The inputs of the chat loop: what the user types, what the producer     *)
(* yields, what the news scraper returns.                                  *)
(***************************************************************************)
\* One chunk of response_stream: a delta with "content", a delta without it
\* (the role delta, the final empty delta), or the producer raising.
ContentChunk(t) == [kind |-> "content", text |-> t]
OtherChunk == [kind |-> "other", text |-> <<>>]
ErrorChunk == [kind |-> "error", text |-> <<>>]

STR_Hi == <<72, 105>>
STR_Stop == <<83, 116, 111, 112>>
STR_News == <<78, 69, 87, 83>>

LongUserText == MkText(CHUNK_SIZE + 1, "ascii", FALSE)

UserInputs == {<<>>, STR_quit, STR_Stop, STR_News, STR_Hi, LongUserText}

LongReply == MkText(CHUNK_SIZE + 50, "newlines", TRUE)

Streams ==
    { <<OtherChunk>>,
      <<OtherChunk, ContentChunk(SubSeq(LongReply, 1, 100)),
        ContentChunk(SubSeq(LongReply, 101, 220)),
        ContentChunk(SubSeq(LongReply, 221, Len(LongReply))), OtherChunk>>,
      <<ContentChunk(<<97, 98>>), ErrorChunk>> }

NewsStrings == {MkText(CHUNK_SIZE + 50, "ascii", FALSE)}

(***************************************************************************)
(* The applet is another program: while ai_arduno_speech.py runs, its      *)
(* state stays as follows.                                                 *)
(***************************************************************************)
NoStop == [delivered |-> -1, pulled |-> -1]

AppletOff ==
    /\ main_window = 0
    /\ windows = 0
    /\ wWindow = 0
    /\ is_generating = FALSE
    /\ stop_generation_event = 0
    /\ events_set = {}
    /\ generations = 0
    /\ wPc = "none"
    /\ wStopEvent = 0
    /\ wQuestion = <<>>
    /\ wStream = <<>>
    /\ wPos = 0
    /\ full_response = <<>>
    /\ was_stopped = FALSE
    /\ idle = <<>>
    /\ log = <<>>
    /\ conversation_history = <<>>
    /\ inputs_enabled = TRUE
    /\ ai_model_llm = "none"
    /\ stopped_at = NoStop

\* No AIModel.ask() of ai.py or ai_core.py is running.
AskOff ==
    /\ ask_module = "off"
    /\ self_llm = "none"
    /\ generation_params = <<>>
    /\ config = <<>>
    /\ final_gen_params = <<>>
    /\ aPc = "off"
    /\ aI = 0
    /\ aStream = [raises |-> FALSE, chunks |-> <<>>]
    /\ aPos = 0
    /\ yielded = <<>>
    /\ engine_calls = 0

\* No geocode_places() of news_study.py is running.
GeoOff ==
    /\ places = <<>>
    /\ gPc = "off"
    /\ gI = 0
    /\ p_clean = <<>>
    /\ coords = <<>>
    /\ cache = <<>>
    /\ attempts = 0
    /\ backoff = 0
    /\ success = FALSE
    /\ calls = <<>>

\* The command lines the chat loop is run with.
MainArgs ==
    { [use_arduino |-> TRUE, history |-> "history.json", prompt |-> "None",
       use_voice |-> FALSE],
      [use_arduino |-> FALSE, history |-> "None", prompt |-> "prompt.txt",
        use_voice |-> FALSE] }

(***************************************************************************)
(* The transport alone: one call of send_to_arduino, on any prefix, text   *)
(* and handle.                                                             *)
(***************************************************************************)
SendInit ==
    /\ pc = "in_send"
    /\ ser \in {"none", "open"}
    /\ messages = <<>>
    /\ saved = <<>>
    /\ user_input = <<>>
    /\ heard = "none"
    /\ stream = <<>>
    /\ pos = 0
    /\ assistant_response_full = <<>>
    /\ displayed = <<>>
    /\ turns = 0
    /\ sPc = "entry"
    /\ sPrefix \in Prefixes
    /\ sText \in SendTexts
    /\ sRet = "returned"
    /\ sClean = <<>>
    /\ sMode = "SINGLE"
    /\ sI = 0
    /\ io = <<>>
    /\ nmsg = 0
    /\ failures = 0
    /\ reported = 0
    /\ args = [use_arduino |-> TRUE, history |-> "None", prompt |-> "None",
       use_voice |-> FALSE]
    /\ history_file = "missing"
    /\ prompt_file = "missing"
    /\ warnings = 0
    /\ AppletOff
    /\ AskOff
    /\ GeoOff

SendSpec == SendInit /\ [][SendNext]_vars

(***************************************************************************)
(* main_loop(args)                                                         *)
(***************************************************************************)
Message(role, content) == [role |-> role, content |-> content]

\* An entry of the log made outside send_to_arduino.
HandleEvent(op, ms) ==
    [op |-> op, msg |-> 0, ok |-> TRUE, prefix |-> "", mode |-> "",
     payload |-> <<>>, ms |-> ms]

\* Faulty variant of Accumulate: "=" for "+=".
AccumulateOverwrite(full, text_chunk) == text_chunk

\* assistant_response_full += text_chunk
Accumulate(full, text_chunk) == full \o text_chunk

\* Faulty variant of Show: the new text is put before what is shown.
ShowBefore(shown, text_chunk) == text_chunk \o shown

\* print(text_chunk, end="", flush=True): what the terminal shows afterwards.
Show(shown, text_chunk) == shown \o text_chunk

\* Faulty variant of Finalize: the newlines are collapsed in the history too.
FinalizeCollapsed(full) == Normalize(full)

\* assistant_response_full.strip()
Finalize(full) == Strip(full)

\* The truth value of a path argument: None and '' are false.
Truthy(path) == path \notin {"None", ""}

\* Faulty variant of OpenFailed: the program gives up.
OpenFailedAbort ==
    /\ ser' = "none"
    /\ pc' = "exited"

\* "except serial.SerialException as e: print(...); return None"
OpenFailed ==
    /\ ser' = "none"
    /\ pc' = "init_llm"

\* Faulty variant of OpenEvents: the handle is returned without the delay.
OpenEventsNoSettle == <<HandleEvent("open", 0)>>

\* ser = serial.Serial(...); time.sleep(2)
OpenEvents == <<HandleEvent("open", 0), HandleEvent("sleep", SettleDelayMs)>>

\* ser = initialize_arduino(args.use_arduino)
InitializeArduino ==
    /\ pc = "start"
    /\ \/ \* if not use_arduino_flag: return None
          /\ ~args.use_arduino
          /\ ser' = "none"
          /\ pc' = "init_llm"
          /\ io' = io
       \/ \* serial.Serial raises SerialException
          /\ args.use_arduino
          /\ OpenFailed
          /\ io' = io
       \/ \* the port opens; time.sleep(2); return ser
          /\ args.use_arduino
          /\ ser' = "open"
          /\ pc' = "init_llm"
          /\ io' = io \o OpenEvents
    /\ UNCHANGED <<nmsg, failures, reported>>
    /\ UNCHANGED sendVars
    /\ UNCHANGED mainVars
    /\ UNCHANGED startVars
    /\ UNCHANGED appletVars
    /\ UNCHANGED askVars
    /\ UNCHANGED geoVars

\* llm = initialize_llm()
InitializeLlm ==
    /\ pc = "init_llm"
    /\ \/ \* the model loads
          pc' = "load"
       \/ \* Llama(...) raises: exit()
          pc' = "exited"
    /\ UNCHANGED <<ser, io, nmsg, failures, reported>>
    /\ UNCHANGED sendVars
    /\ UNCHANGED mainVars
    /\ UNCHANGED startVars
    /\ UNCHANGED appletVars
    /\ UNCHANGED askVars
    /\ UNCHANGED geoVars

\* The value None, and a list of messages.
None == [none |-> TRUE, value |-> <<>>]
List(v) == [none |-> FALSE, value |-> v]

\* Faulty variant of load_history: what is in the file is used as it is.
load_history_unchecked(history_path) == List(saved)

\* load_history(history_path)
load_history(history_path) ==
    IF ~Truthy(history_path) \/ history_file = "missing" THEN None
    ELSE IF history_file = "corrupt" THEN None
    ELSE List(saved)

\* The warning load_history prints when the file exists and cannot be loaded.
LoadWarns(history_path) == Truthy(history_path) /\ history_file = "corrupt"

STR_Prompt == <<66, 101, 32, 98, 114, 105, 101, 102, 46, LF>>

\* get_system_prompt(prompt_path)
get_system_prompt(prompt_path) ==
    IF ~Truthy(prompt_path) THEN <<Message("system", <<>>)>>
    ELSE IF prompt_file = "missing" THEN <<Message("system", <<>>)>>
    ELSE <<Message("system", STR_Prompt)>>

\* a or b, for a the result of load_history and b a list
Or(a, b) == IF a.none \/ a.value = <<>> THEN b ELSE a.value

\* messages = load_history(args.history) or get_system_prompt(args.prompt)
LoadMessages ==
    /\ pc = "load"
    /\ messages' = Or(load_history(args.history), get_system_prompt(args.prompt))
    /\ warnings' = IF LoadWarns(args.history) THEN warnings + 1 ELSE warnings
    /\ pc' = "input"
    /\ UNCHANGED <<ser, saved, user_input, heard, stream, pos, assistant_response_full,
                   displayed, turns, io, nmsg, failures, reported, args,
                   history_file, prompt_file>>
    /\ UNCHANGED sendVars
    /\ UNCHANGED appletVars
    /\ UNCHANGED askVars
    /\ UNCHANGED geoVars

\* One pass of the while loop up to the first send: the input is read and
\* dispatched.
\* How a call of recognizer.listen / recognize_google can end.
SpeechErrors == {"WaitTimeoutError", "UnknownValueError", "RequestError"}
SpeechOutcomes == SpeechErrors \cup {"recognized"}

\* Faulty variant of get_user_speech: an unintelligible utterance is passed
\* on as if its transcript had been recognized.
get_user_speech_passes_noise(outcome, transcript) ==
    IF outcome \in {"WaitTimeoutError", "RequestError"}
    THEN None
    ELSE List(transcript)

\* get_user_speech: the transcript, or None after one of the three errors.
get_user_speech(outcome, transcript) ==
    IF outcome \in SpeechErrors THEN None ELSE List(transcript)

\* get_user_text: the line read from the terminal.
get_user_text(typed) == List(typed)

\* Python's "not user_input" on None or a str.
Not(v) == v.none \/ v.value = <<>>

\* One pass of the while loop up to the first send (or continue / break).
\* user_input keeps the text of the returned value; None is kept as the
\* empty text there, and heard tells the two apart.
\* What was said when the recognizer gives an error instead of a transcript.
Unrecognized == {STR_Hi}

GetInput ==
    /\ pc = "input"
    /\ \E outcome \in (IF args.use_voice THEN SpeechOutcomes ELSE {"typed"}) :
       \E text \in (IF outcome \in SpeechErrors THEN Unrecognized ELSE UserInputs) :
          LET got == IF args.use_voice
                     THEN get_user_speech(outcome, text)
                     ELSE get_user_text(text)
              inp == got.value
          IN
          /\ heard' = IF args.use_voice THEN outcome ELSE heard
          /\ user_input' = inp
          /\ \/ \* if not user_input: continue
                /\ Not(got)
                /\ pc' = "input"
                /\ UNCHANGED <<turns, sPc, sPrefix, sText, sRet, sClean, sMode, sI>>
             \/ \* if lower_input in ["quit", "exit", "stop"]: break
                /\ ~Not(got)
                /\ Lower(inp) \in QuitCommands
                /\ pc' = "closing"
                /\ UNCHANGED <<turns, sPc, sPrefix, sText, sRet, sClean, sMode, sI>>
             \/ \* news_string = get_latest_news(); send_to_arduino(...); continue
                /\ ~Not(got)
                /\ Lower(inp) \in NewsCommands
                /\ turns < MaxTurns
                /\ turns' = turns + 1
                /\ \E news_string \in NewsStrings :
                      Call("GEMMA", news_string, "input")
             \/ \* send_to_arduino(ser, "USER", user_input)
                /\ ~Not(got)
                /\ Lower(inp) \notin QuitCommands \cup NewsCommands
                /\ turns < MaxTurns
                /\ turns' = turns + 1
                /\ Call("USER", inp, "after_user_send")
    /\ UNCHANGED <<ser, messages, saved, stream, pos, assistant_response_full,
                   displayed, io, nmsg, failures, reported>>
    /\ UNCHANGED startVars
    /\ UNCHANGED appletVars
    /\ UNCHANGED askVars
    /\ UNCHANGED geoVars

\* messages.append(user); response_stream = llm.create_chat_completion(...)
StartGeneration ==
    /\ pc = "after_user_send"
    /\ messages' = Append(messages, Message("user", user_input))
    /\ \/ \E st \in Streams :
             /\ stream' = st
             /\ pos' = 0
             /\ assistant_response_full' = <<>>
             /\ displayed' = <<>>
             /\ pc' = "stream"
       \/ \* create_chat_completion raises: nothing in main_loop catches it
          /\ pc' = "crashed"
          /\ UNCHANGED <<stream, pos, assistant_response_full, displayed>>
    /\ UNCHANGED <<ser, saved, user_input, heard, turns, io, nmsg, failures, reported>>
    /\ UNCHANGED sendVars
    /\ UNCHANGED startVars
    /\ UNCHANGED appletVars
    /\ UNCHANGED askVars
    /\ UNCHANGED geoVars

\* Faulty variant of AfterContent: each fragment is sent as it arrives.
AfterContentForward(text_chunk) == Call("GEMMA", text_chunk, "stream")

\* What the loop does after it has taken a chunk with content.
AfterContent(text_chunk) ==
    /\ pc' = "stream"
    /\ UNCHANGED sendVars

\* One iteration of "for chunk in response_stream".
ConsumeChunk ==
    /\ pc = "stream"
    /\ pos < Len(stream)
    /\ LET chunk == stream[pos + 1]
       IN  \/ \* the producer raises: nothing in main_loop catches it
              /\ chunk.kind = "error"
              /\ pc' = "crashed"
              /\ UNCHANGED <<pos, displayed, assistant_response_full>>
              /\ UNCHANGED sendVars
           \/ \* "content" is not in the delta
              /\ chunk.kind = "other"
              /\ pos' = pos + 1
              /\ pc' = "stream"
              /\ UNCHANGED <<displayed, assistant_response_full>>
              /\ UNCHANGED sendVars
           \/ \* print(text_chunk); assistant_response_full += text_chunk
              /\ chunk.kind = "content"
              /\ pos' = pos + 1
              /\ displayed' = Show(displayed, chunk.text)
              /\ assistant_response_full' =
                    Accumulate(assistant_response_full, chunk.text)
              /\ AfterContent(chunk.text)
    /\ UNCHANGED <<ser, messages, saved, user_input, heard, stream, turns, io, nmsg,
                   failures, reported>>
    /\ UNCHANGED startVars
    /\ UNCHANGED appletVars
    /\ UNCHANGED askVars
    /\ UNCHANGED geoVars

\* The stream is exhausted: messages.append(assistant);
\* send_to_arduino(ser, "GEMMA", assistant_response_full)
FinishStream ==
    /\ pc = "stream"
    /\ pos = Len(stream)
    /\ messages' =
          Append(messages, Message("assistant", Finalize(assistant_response_full)))
    /\ Call("GEMMA", assistant_response_full, "save")
    /\ UNCHANGED <<ser, saved, user_input, heard, stream, pos, assistant_response_full,
                   displayed, turns, io, nmsg, failures, reported>>
    /\ UNCHANGED startVars
    /\ UNCHANGED appletVars
    /\ UNCHANGED askVars
    /\ UNCHANGED geoVars

\* save_history(messages, args.history)
SaveHistory ==
    /\ pc = "save"
    /\ \/ \* no path: nothing is written
          /\ ~Truthy(args.history)
          /\ UNCHANGED <<saved, history_file>>
       \/ \* json.dump(messages, f, indent=4)
          /\ Truthy(args.history)
          /\ saved' = messages
          /\ history_file' = "json"
       \/ \* open raises: "Error saving history" is printed
          /\ Truthy(args.history)
          /\ UNCHANGED <<saved, history_file>>
    /\ pc' = "input"
    /\ UNCHANGED <<ser, messages, user_input, heard, stream, pos,
                   assistant_response_full, displayed, turns, io, nmsg,
                   failures, reported>>
    /\ UNCHANGED sendVars
    /\ UNCHANGED <<args, prompt_file, warnings>>
    /\ UNCHANGED appletVars
    /\ UNCHANGED askVars
    /\ UNCHANGED geoVars

\* After the loop: "if ser: ser.close()"
CloseChannel ==
    /\ pc = "closing"
    /\ IF SerUsable(ser)
       THEN /\ ser' = "closed"
            /\ io' = Append(io, HandleEvent("close", 0))
       ELSE UNCHANGED <<ser, io>>
    /\ pc' = "done"
    /\ UNCHANGED <<nmsg, failures, reported>>
    /\ UNCHANGED sendVars
    /\ UNCHANGED mainVars
    /\ UNCHANGED startVars
    /\ UNCHANGED appletVars
    /\ UNCHANGED askVars
    /\ UNCHANGED geoVars

Init ==
    /\ pc = "start"
    /\ ser = "none"
    /\ messages = <<>>
    /\ saved = <<>>
    /\ user_input = <<>>
    /\ heard = "none"
    /\ stream = <<>>
    /\ pos = 0
    /\ assistant_response_full = <<>>
    /\ displayed = <<>>
    /\ turns = 0
    /\ sPc = "idle"
    /\ sPrefix = "USER"
    /\ sText = <<>>
    /\ sRet = "input"
    /\ sClean = <<>>
    /\ sMode = "SINGLE"
    /\ sI = 0
    /\ io = <<>>
    /\ nmsg = 0
    /\ failures = 0
    /\ reported = 0
    /\ args \in MainArgs
    /\ history_file = "missing"
    /\ prompt_file = "text"
    /\ warnings = 0
    /\ AppletOff
    /\ AskOff
    /\ GeoOff

Next ==
    \/ InitializeArduino
    \/ InitializeLlm
    \/ LoadMessages
    \/ GetInput
    \/ StartGeneration
    \/ ConsumeChunk
    \/ FinishStream
    \/ SaveHistory
    \/ CloseChannel
    \/ SendEntry
    \/ SendWrite
    \/ SendWriteFail
    \/ SendFlush
    \/ SendFlushFail
    \/ SendSleep

Spec == Init /\ [][Next]_vars

(***************************************************************************)
(* main_loop started with --use-voice --use-arduino and no history file:   *)
(* every input is a get_user_speech call.                                  *)
(***************************************************************************)
VoiceArgs ==
    { [use_arduino |-> TRUE, history |-> "None", prompt |-> "None",
       use_voice |-> TRUE] }

VoiceInit ==
    /\ pc = "start"
    /\ ser = "none"
    /\ messages = <<>>
    /\ saved = <<>>
    /\ user_input = <<>>
    /\ heard = "none"
    /\ stream = <<>>
    /\ pos = 0
    /\ assistant_response_full = <<>>
    /\ displayed = <<>>
    /\ turns = 0
    /\ sPc = "idle"
    /\ sPrefix = "USER"
    /\ sText = <<>>
    /\ sRet = "input"
    /\ sClean = <<>>
    /\ sMode = "SINGLE"
    /\ sI = 0
    /\ io = <<>>
    /\ nmsg = 0
    /\ failures = 0
    /\ reported = 0
    /\ args \in VoiceArgs
    /\ history_file = "missing"
    /\ prompt_file = "text"
    /\ warnings = 0
    /\ AppletOff
    /\ AskOff
    /\ GeoOff

VoiceSpec == VoiceInit /\ [][Next]_vars

(***************************************************************************)
(* The start of main_loop alone, up to the first prompt, for every command *)
(* line and every state of the history and prompt files.                   *)
(***************************************************************************)
StartArgs ==
    [use_arduino : BOOLEAN, history : {"None", "", "history.json"},
     prompt : {"None", "prompt.txt"}, use_voice : BOOLEAN]

STR_Hello == <<72, 101, 108, 108, 111>>

\* What a history file written by save_history can hold.
SavedHistories ==
    { <<>>,
      <<Message("system", <<>>), Message("user", STR_Hi),
        Message("assistant", STR_Hello)>> }

StartInit ==
    /\ pc = "start"
    /\ ser = "none"
    /\ messages = <<>>
    /\ user_input = <<>>
    /\ heard = "none"
    /\ stream = <<>>
    /\ pos = 0
    /\ assistant_response_full = <<>>
    /\ displayed = <<>>
    /\ turns = 0
    /\ sPc = "idle"
    /\ sPrefix = "USER"
    /\ sText = <<>>
    /\ sRet = "input"
    /\ sClean = <<>>
    /\ sMode = "SINGLE"
    /\ sI = 0
    /\ io = <<>>
    /\ nmsg = 0
    /\ failures = 0
    /\ reported = 0
    /\ args \in StartArgs
    /\ history_file \in {"missing", "corrupt", "json"}
    /\ saved \in (IF history_file = "missing" THEN {<<>>} ELSE SavedHistories)
    /\ prompt_file \in {"missing", "text"}
    /\ warnings = 0
    /\ AppletOff
    /\ AskOff
    /\ GeoOff

StartNext ==
    \/ InitializeArduino
    \/ InitializeLlm
    \/ LoadMessages

StartSpec == StartInit /\ [][StartNext]_vars

(***************************************************************************)
(* toolbar_applet.py: the controller (IndicatorApplet), its worker thread  *)
(* do_ai_stream, and the window of response_window.py.  The GTK main loop  *)
(* runs the click handlers and the callbacks queued with GObject.idle_add, *)
(* one at a time and in the order they were queued; the worker thread runs *)
(* beside it.                                                              *)
(***************************************************************************)
MaxGenerations == 2
MaxWindows == 2

loopVars ==
    <<ser, mainVars, sendVars, io, nmsg, failures, reported, startVars>>

\* "\n\nAI: "
STR_AiHeader ==
    <<10, 10, 65, 73, 58, 32>>

\* "\n[Stopped by user]"
STR_Stopped ==
    <<10, 91, 83, 116, 111, 112, 112, 101, 100, 32, 98, 121, 32, 117, 115,
    101, 114, 93>>

\* "\n\nUser: "
STR_UserHeader ==
    <<10, 10, 85, 115, 101, 114, 58, 32>>

STR_NotLoaded ==
    <<69, 114, 114, 111, 114, 58, 32, 84, 104, 101, 32, 65, 73, 32, 109,
    111, 100, 101, 108, 32, 105, 115, 32, 110, 111, 116, 32, 108, 111, 97,
    100, 101, 100, 46>>

STR_NotLoadedLog ==
    <<69, 114, 114, 111, 114, 58, 32, 65, 73, 32, 109, 111, 100, 101, 108,
    32, 105, 115, 32, 110, 111, 116, 32, 108, 111, 97, 100, 101, 100, 46,
    32, 67, 104, 101, 99, 107, 32, 109, 111, 100, 101, 108, 32, 112, 97,
    116, 104, 32, 111, 114, 32, 108, 111, 103, 115, 46>>

STR_Sorry ==
    <<83, 111, 114, 114, 121, 44, 32, 97, 110, 32, 101, 114, 114, 111,
    114, 32, 111, 99, 99, 117, 114, 114, 101, 100, 32, 119, 104, 105, 108,
    101, 32, 103, 101, 110, 101, 114, 97, 116, 105, 110, 103, 32, 116,
    104, 101, 32, 114, 101, 115, 112, 111, 110, 115, 101, 46>>

STR_ThreadError ==
    <<69, 114, 114, 111, 114, 32, 115, 116, 97, 114, 116, 105, 110, 103,
    32, 103, 101, 110, 101, 114, 97, 116, 105, 111, 110, 32, 116, 104,
    114, 101, 97, 100, 58, 32>>

\* The callbacks given to GObject.idle_add.
AppendToLog(window, text, tag) ==
    [fn |-> "append_to_log", text |-> text, tag |-> tag, flag |-> FALSE,
     question |-> <<>>, window |-> window]
ToggleInputs(window, is_enabled) ==
    [fn |-> "toggle_inputs", text |-> <<>>, tag |-> "", flag |-> is_enabled,
     question |-> <<>>, window |-> window]
OnStreamDone(window, question, response) ==
    [fn |-> "on_stream_done", text |-> response, tag |-> "", flag |-> FALSE,
     question |-> question, window |-> window]

\* An insertion in the text buffer.
LogEntry(text, tag) == [text |-> text, tag |-> tag]

\* AIModel.ask of ai_core.py, called without a stop_event: what the generator
\* yields, for what the engine's stream holds.
RECURSIVE ask(_, _)
ask(llm, st) ==
    IF llm = "none" THEN <<STR_NotLoaded>>
    ELSE IF st = <<>> THEN <<>>
    ELSE IF Head(st).kind = "error" THEN <<STR_Sorry>>
    ELSE IF Head(st).kind = "content" THEN <<Head(st).text>> \o ask(llm, Tail(st))
    ELSE ask(llm, Tail(st))

AppletEngineStreams ==
    { <<OtherChunk>>,
      <<OtherChunk, ContentChunk(<<SPACE, 72, 101>>),
        ContentChunk(<<108, 108, 111>>), ContentChunk(<<33, SPACE, LF>>),
        OtherChunk>>,
      <<ContentChunk(<<97, 98>>), ErrorChunk>> }

AppletQuestions == {<<>>, STR_Hi}

\* thread.start(): do_ai_stream begins with its arguments bound.
ThreadStart(question, stop_event) ==
    /\ wPc' = "header"
    /\ wWindow' = main_window
    /\ wStopEvent' = stop_event
    /\ wQuestion' = question
    /\ \E st \in AppletEngineStreams : wStream' = ask(ai_model_llm, st)
    /\ wPos' = 0
    /\ full_response' = <<>>
    /\ was_stopped' = FALSE
    /\ stopped_at' = NoStop

workerVars ==
    <<wWindow, wPc, wStopEvent, wQuestion, wStream, wPos, full_response, was_stopped,
      stopped_at>>

\* Faulty variant of ThreadingEvent: the event of the generation before is
\* used again.
ThreadingEventReused ==
    IF stop_generation_event # 0 THEN stop_generation_event ELSE 1

\* threading.Event(): an object that did not exist before, not set.
ThreadingEvent == generations + 1

\* Faulty variant of AlreadyGenerating: a running generation is not looked at.
AlreadyGeneratingNever == FALSE

\* "if self.is_generating: return"
AlreadyGenerating == is_generating


\* handle_question_stream(question, history, window), after on_send_clicked
\* has put the question in the log and disabled the inputs.
HandleQuestionStream(question, shown) ==
    IF AlreadyGenerating
    THEN /\ log' = shown
         /\ UNCHANGED <<is_generating, stop_generation_event, generations, idle>>
         /\ UNCHANGED workerVars
    ELSE IF ai_model_llm = "none"
    THEN /\ log' = shown
         /\ idle' = Append(idle, AppendToLog(main_window, STR_NotLoadedLog, "error_text"))
         /\ UNCHANGED <<is_generating, stop_generation_event, generations>>
         /\ UNCHANGED workerVars
    ELSE /\ log' = shown
         /\ generations < MaxGenerations
         /\ generations' = generations + 1
         /\ stop_generation_event' = ThreadingEvent
         /\ \/ \* the thread starts
               /\ is_generating' = TRUE
               /\ idle' = Append(idle, ToggleInputs(main_window, FALSE))
               /\ ThreadStart(question, ThreadingEvent)
            \/ \* threading raises: is_generating is reset, the error is logged
               /\ is_generating' = FALSE
               /\ idle' = idle \o <<ToggleInputs(main_window, FALSE),
                                    AppendToLog(main_window, STR_ThreadError,
                                                "error_text")>>
               /\ UNCHANGED workerVars

\* ResponseWindow.on_send_clicked: the Send button, or Enter in the entry.
OnSendClicked ==
    /\ pc = "gtk_main"
    /\ main_window # 0
    /\ inputs_enabled
    /\ \E question \in AppletQuestions :
          IF question = <<>>
          THEN /\ UNCHANGED <<log, inputs_enabled, is_generating,
                              stop_generation_event, generations, idle>>
               /\ UNCHANGED workerVars
          ELSE /\ inputs_enabled' = FALSE
               /\ HandleQuestionStream(
                     question,
                     Append(log, LogEntry(STR_UserHeader \o question,
                                          "user_question")))
    /\ UNCHANGED <<pc, main_window, windows, events_set, conversation_history,
                   ai_model_llm>>
    /\ UNCHANGED loopVars
    /\ UNCHANGED askVars
    /\ UNCHANGED geoVars

\* ResponseWindow.on_stop_clicked: the Stop button; stop_generation().
OnStopClicked ==
    /\ pc = "gtk_main"
    /\ main_window # 0
    /\ ~inputs_enabled
    /\ IF stop_generation_event # 0
       THEN /\ events_set' = events_set \cup {stop_generation_event}
            /\ stopped_at' =
                  IF /\ wPc \in {"header", "pull", "check"}
                     /\ wStopEvent = stop_generation_event
                     /\ stop_generation_event \notin events_set
                  THEN [delivered |-> IF wPc = "check" THEN wPos - 1 ELSE wPos,
                        pulled |-> wPos]
                  ELSE stopped_at
       ELSE UNCHANGED <<events_set, stopped_at>>
    /\ UNCHANGED <<pc, main_window, windows, wWindow, is_generating,
                   stop_generation_event, generations, wPc, wStopEvent, wQuestion, wStream, wPos, full_response,
                   was_stopped, idle, log, conversation_history,
                   inputs_enabled, ai_model_llm>>
    /\ UNCHANGED loopVars
    /\ UNCHANGED askVars
    /\ UNCHANGED geoVars

\* The GTK main loop runs the callback at the head of the idle queue.
RunIdle ==
    /\ pc = "gtk_main"
    /\ idle # <<>>
    /\ idle' = Tail(idle)
    /\ LET cb == Head(idle)
           \* the callback's window is the one on screen; a window that was
           \* closed keeps nothing the user can see or use
           shown == cb.window = main_window
       IN  CASE cb.fn = "append_to_log" ->
                  /\ log' = IF shown
                            THEN Append(log, LogEntry(cb.text, cb.tag))
                            ELSE log
                  /\ UNCHANGED <<is_generating, conversation_history,
                                 inputs_enabled>>
             [] cb.fn = "toggle_inputs" ->
                  /\ inputs_enabled' = IF shown THEN cb.flag ELSE inputs_enabled
                  /\ UNCHANGED <<is_generating, conversation_history, log>>
             [] cb.fn = "on_stream_done" ->
                  \* is_generating = False; add_response_to_history;
                  \* toggle_inputs(True)
                  /\ is_generating' = FALSE
                  /\ conversation_history' =
                        IF shown
                        THEN conversation_history \o
                               <<Message("user", cb.question),
                                 Message("assistant", cb.text)>>
                        ELSE conversation_history
                  /\ inputs_enabled' = IF shown THEN TRUE ELSE inputs_enabled
                  /\ log' = log
    /\ UNCHANGED <<pc, main_window, windows, stop_generation_event, events_set,
                   generations, ai_model_llm>>
    /\ UNCHANGED workerVars
    /\ UNCHANGED loopVars
    /\ UNCHANGED askVars
    /\ UNCHANGED geoVars

\* on_toggle_window: the menu item, insensitive when the model is missing;
\* with no window it builds a ResponseWindow, else it presents the one there.
OnToggleWindow ==
    /\ pc = "gtk_main"
    /\ ai_model_llm # "none"
    /\ main_window = 0
    /\ windows < MaxWindows
    /\ windows' = windows + 1
    /\ main_window' = windows + 1
    /\ log' = <<>>
    /\ conversation_history' = <<>>
    /\ inputs_enabled' = TRUE
    /\ UNCHANGED <<pc, is_generating, stop_generation_event, events_set,
                   generations, idle, ai_model_llm>>
    /\ UNCHANGED workerVars
    /\ UNCHANGED loopVars
    /\ UNCHANGED askVars
    /\ UNCHANGED geoVars

\* The window is closed: "destroy" runs on_window_closed.
OnWindowClosed ==
    /\ pc = "gtk_main"
    /\ main_window # 0
    /\ main_window' = 0
    /\ UNCHANGED <<pc, windows, is_generating, stop_generation_event,
                   events_set, generations, idle, log, conversation_history,
                   inputs_enabled, ai_model_llm>>
    /\ UNCHANGED workerVars
    /\ UNCHANGED loopVars
    /\ UNCHANGED askVars
    /\ UNCHANGED geoVars

\* do_ai_stream: idle_add(window.append_to_log, "\n\nAI: ", "ai_response")
WorkerHeader ==
    /\ wPc = "header"
    /\ idle' = Append(idle, AppendToLog(wWindow, STR_AiHeader, "ai_response"))
    /\ wPc' = "pull"
    /\ UNCHANGED <<pc, main_window, windows, wWindow, is_generating, stop_generation_event, events_set,
                   generations, wStopEvent, wQuestion, wStream, wPos,
                   full_response, was_stopped, log, conversation_history,
                   inputs_enabled, ai_model_llm, stopped_at>>
    /\ UNCHANGED loopVars
    /\ UNCHANGED askVars
    /\ UNCHANGED geoVars

\* "for chunk in self.ai_model.ask(...)": the generator is resumed; it yields
\* its next chunk or ends.
WorkerPull ==
    /\ wPc = "pull"
    /\ IF wPos < Len(wStream)
       THEN /\ wPos' = wPos + 1
            /\ wPc' = "check"
       ELSE /\ wPos' = wPos
            /\ wPc' = "finish"
    /\ UNCHANGED <<pc, main_window, windows, wWindow, is_generating, stop_generation_event, events_set,
                   generations, wStopEvent, wQuestion, wStream, full_response,
                   was_stopped, idle, log, conversation_history,
                   inputs_enabled, ai_model_llm, stopped_at>>
    /\ UNCHANGED loopVars
    /\ UNCHANGED askVars
    /\ UNCHANGED geoVars

\* The body of the loop, for the chunk just pulled.
WorkerCheck ==
    /\ wPc = "check"
    /\ IF wStopEvent \in events_set
       THEN \* was_stopped = True; break
            /\ was_stopped' = TRUE
            /\ wPc' = "finish"
            /\ UNCHANGED <<full_response, idle>>
       ELSE \* full_response += chunk; idle_add(window.append_to_log, chunk, ...)
            /\ full_response' = Accumulate(full_response, wStream[wPos])
            /\ idle' = Append(idle, AppendToLog(wWindow, wStream[wPos],
                                                "ai_response"))
            /\ wPc' = "pull"
            /\ UNCHANGED was_stopped
    /\ UNCHANGED <<pc, main_window, windows, wWindow, is_generating, stop_generation_event, events_set,
                   generations, wStopEvent, wQuestion, wStream, wPos, log,
                   conversation_history, inputs_enabled, ai_model_llm,
                   stopped_at>>
    /\ UNCHANGED loopVars
    /\ UNCHANGED askVars
    /\ UNCHANGED geoVars

\* Faulty variant of WorkerFinish: the thread ends without queueing
\* on_stream_done.
WorkerFinishNoDone ==
    /\ wPc = "finish"
    /\ idle' =
          (IF was_stopped
           THEN Append(idle, AppendToLog(wWindow, STR_Stopped, "error_text"))
           ELSE idle)
    /\ wPc' = "none"
    /\ UNCHANGED <<pc, main_window, windows, wWindow, is_generating,
                   stop_generation_event, events_set, generations, wStopEvent,
                   wQuestion, wStream, wPos, full_response, was_stopped, log,
                   conversation_history, inputs_enabled, ai_model_llm,
                   stopped_at>>
    /\ UNCHANGED loopVars
    /\ UNCHANGED askVars
    /\ UNCHANGED geoVars

\* After the loop: the stop marker, then on_stream_done is queued and the
\* thread ends.
WorkerFinish ==
    /\ wPc = "finish"
    /\ idle' =
          (IF was_stopped
           THEN Append(idle, AppendToLog(wWindow, STR_Stopped, "error_text"))
           ELSE idle) \o <<OnStreamDone(wWindow, wQuestion, full_response)>>
    /\ wPc' = "none"
    /\ UNCHANGED <<pc, main_window, windows, wWindow, is_generating, stop_generation_event, events_set,
                   generations, wStopEvent, wQuestion, wStream, wPos,
                   full_response, was_stopped, log, conversation_history,
                   inputs_enabled, ai_model_llm, stopped_at>>
    /\ UNCHANGED loopVars
    /\ UNCHANGED askVars
    /\ UNCHANGED geoVars

\* The applet after IndicatorApplet(): the model is loaded or missing, no
\* window has been built, nothing is being generated.
AppletInit ==
    /\ pc = "gtk_main"
    /\ ser = "none"
    /\ messages = <<>>
    /\ saved = <<>>
    /\ user_input = <<>>
    /\ heard = "none"
    /\ stream = <<>>
    /\ pos = 0
    /\ assistant_response_full = <<>>
    /\ displayed = <<>>
    /\ turns = 0
    /\ sPc = "idle"
    /\ sPrefix = "USER"
    /\ sText = <<>>
    /\ sRet = "input"
    /\ sClean = <<>>
    /\ sMode = "SINGLE"
    /\ sI = 0
    /\ io = <<>>
    /\ nmsg = 0
    /\ failures = 0
    /\ reported = 0
    /\ args = [use_arduino |-> FALSE, history |-> "None", prompt |-> "None",
       use_voice |-> FALSE]
    /\ history_file = "missing"
    /\ prompt_file = "missing"
    /\ warnings = 0
    /\ main_window = 0
    /\ windows = 0
    /\ wWindow = 0
    /\ is_generating = FALSE
    /\ stop_generation_event = 0
    /\ events_set = {}
    /\ generations = 0
    /\ wPc = "none"
    /\ wStopEvent = 0
    /\ wQuestion = <<>>
    /\ wStream = <<>>
    /\ wPos = 0
    /\ full_response = <<>>
    /\ was_stopped = FALSE
    /\ idle = <<>>
    /\ log = <<>>
    /\ conversation_history = <<>>
    /\ inputs_enabled = TRUE
    /\ ai_model_llm \in {"loaded", "none"}
    /\ stopped_at = NoStop
    /\ AskOff
    /\ GeoOff

AppletNext ==
    \/ OnToggleWindow
    \/ OnWindowClosed
    \/ OnSendClicked
    \/ OnStopClicked
    \/ RunIdle
    \/ WorkerHeader
    \/ WorkerPull
    \/ WorkerCheck
    \/ WorkerFinish

AppletSpec == AppletInit /\ [][AppletNext]_vars

\* The same with the scheduling the run time gives: the GTK main loop runs
\* a queued callback when there is one, and the worker thread, once
\* started, keeps being scheduled.
\* The next step of the worker thread, whichever it is.
WorkerStep ==
    \/ WorkerHeader
    \/ WorkerPull
    \/ WorkerCheck
    \/ WorkerFinish

AppletFairSpec ==
    /\ AppletInit
    /\ [][AppletNext]_vars
    /\ WF_vars(RunIdle)
    /\ WF_vars(WorkerStep)

(***************************************************************************)
(* AIModel.ask of ai.py (the web and command-line front end) and of        *)
(* ai_core.py (the applet's engine wrapper).                               *)
(*                                                                         *)
(* Python values are records tagged with their type.  A float is kept in   *)
(* thousandths (milli), or is inf or nan; an int is n, or is marked huge    *)
(* when it is beyond the range of a float (a JSON body may hold one).      *)
(***************************************************************************)
PyNone == [t |-> "NoneType"]
PyStr(s) == [t |-> "str", s |-> s]
PyInt(n) == [t |-> "int", n |-> n, huge |-> FALSE]
PyHugeInt == [t |-> "int", n |-> 0, huge |-> TRUE]
PyFloat(m) == [t |-> "float", special |-> "finite", milli |-> m]
PyInf == [t |-> "float", special |-> "inf", milli |-> 0]
PyNaN == [t |-> "float", special |-> "nan", milli |-> 0]
PyBool(b) == [t |-> "bool", b |-> b]
PyList == [t |-> "list"]

Converted(v) == [ok |-> TRUE, value |-> v, error |-> "none"]
Raised(e) == [ok |-> FALSE, value |-> PyNone, error |-> e]

IsDigit(c) == c \in 48..57

\* The value of a run of decimal digits.
RECURSIVE DigitsValue(_)
DigitsValue(s) ==
    IF s = <<>> THEN 0
    ELSE DigitsValue(SubSeq(s, 1, Len(s) - 1)) * 10 + (s[Len(s)] - 48)

AllDigits(s) == s # <<>> /\ \A j \in 1..Len(s) : IsDigit(s[j])

\* s without one leading sign.
Unsigned(s) == IF s # <<>> /\ s[1] \in {43, 45} THEN Tail(s) ELSE s
Sign(s) == IF s # <<>> /\ s[1] = 45 THEN -1 ELSE 1

\* The place of the decimal point in s, 0 when there is none.
PointAt(s) ==
    IF \E j \in 1..Len(s) : s[j] = 46
    THEN CHOOSE j \in 1..Len(s) : s[j] = 46 /\ \A k \in 1..(j - 1) : s[k] # 46
    ELSE 0

\* Three decimals of a fraction, in thousandths.
Milli(frac) ==
    DigitsValue(SubSeq(frac \o <<48, 48, 48>>, 1, 3))

STR_inf == <<105, 110, 102>>
STR_nan == <<110, 97, 110>>

\* int(str): surrounding whitespace is ignored; a sign and decimal digits.
IntOfStr(s) ==
    LET u == Unsigned(Strip(s))
    IN IF AllDigits(u)
       THEN Converted(PyInt(Sign(Strip(s)) * DigitsValue(u)))
       ELSE Raised("ValueError")

\* float(str): surrounding whitespace is ignored; a sign, then inf, nan, or
\* decimal digits with at most one point.
FloatOfStr(s) ==
    LET u == Unsigned(Strip(s))
        p == PointAt(u)
        whole == IF p = 0 THEN u ELSE SubSeq(u, 1, p - 1)
        frac == IF p = 0 THEN <<>> ELSE SubSeq(u, p + 1, Len(u))
    IN IF Lower(u) = STR_inf THEN Converted(PyInf)
       ELSE IF Lower(u) = STR_nan THEN Converted(PyNaN)
       ELSE IF /\ whole \o frac # <<>>
               /\ \A j \in 1..Len(whole) : IsDigit(whole[j])
               /\ \A j \in 1..Len(frac) : IsDigit(frac[j])
       THEN Converted(PyFloat(Sign(Strip(s))
                                * (DigitsValue(whole) * 1000 + Milli(frac))))
       ELSE Raised("ValueError")

\* The built-in float(value).
float(v) ==
    CASE v.t = "float" -> Converted(v)
      [] v.t = "int" -> IF v.huge
                        THEN Raised("OverflowError")
                        ELSE Converted(PyFloat(v.n * 1000))
      [] v.t = "bool" -> Converted(PyFloat(IF v.b THEN 1000 ELSE 0))
      [] v.t = "str" -> FloatOfStr(v.s)
      [] OTHER -> Raised("TypeError")

\* m thousandths, truncated toward zero.
Trunc(m) == IF m >= 0 THEN m \div 1000 ELSE -((-m) \div 1000)

\* The built-in int(value).
int(v) ==
    CASE v.t = "int" -> Converted(v)
      [] v.t = "float" -> IF v.special = "inf" THEN Raised("OverflowError")
                          ELSE IF v.special = "nan" THEN Raised("ValueError")
                          ELSE Converted(PyInt(Trunc(v.milli)))
      [] v.t = "bool" -> Converted(PyInt(IF v.b THEN 1 ELSE 0))
      [] v.t = "str" -> IntOfStr(v.s)
      [] OTHER -> Raised("TypeError")

FloatKeys ==
    {"temperature", "top_p", "repeat_penalty", "mirostat_tau", "mirostat_eta"}
IntKeys == {"top_k", "max_tokens", "mirostat_mode"}

\* self.config["generation_params"] of ai.py.
DefaultGenerationParams ==
    [k \in FloatKeys \cup IntKeys \cup {"stop"} |->
        CASE k = "temperature" -> PyFloat(2000)
          [] k = "top_k" -> PyInt(40)
          [] k = "top_p" -> PyFloat(950)
          [] k = "repeat_penalty" -> PyFloat(1100)
          [] k = "max_tokens" -> PyInt(1024)
          [] k = "stop" -> PyList
          [] k = "mirostat_mode" -> PyInt(0)
          [] k = "mirostat_tau" -> PyFloat(5000)
          [] k = "mirostat_eta" -> PyFloat(100)]

\* "value is not None and value != ''"
Usable(value) == value # PyNone /\ value # PyStr(<<>>)

\* The conversion the loop body applies to the value of key; for any other
\* key the body does nothing.
Conversion(key, value) ==
    IF key \in FloatKeys THEN float(value)
    ELSE IF key \in IntKeys THEN int(value)
    ELSE Raised("no conversion")

\* What except (ValueError, TypeError) catches.
Caught(error) == error \in {"ValueError", "TypeError"}

\* The incoming keys and values: what a JSON body or the command line holds.
ParamKeys == FloatKeys \cup IntKeys \cup {"stop", "seed"}

STR_0_5 == <<48, 46, 53>>
STR_7 == <<55>>
STR_abc == <<97, 98, 99>>

ParamValues ==
    { PyNone, PyStr(<<>>), PyStr(STR_0_5), PyStr(STR_7), PyStr(<<SPACE, 51, SPACE>>),
      PyStr(STR_abc), PyStr(STR_inf), PyInt(7), PyHugeInt, PyFloat(2700),
      PyInf, PyNaN, PyBool(TRUE), PyList }

MaxParams == 1

\* Dicts of at most MaxParams items, in insertion order.
ParamDicts ==
    { d \in UNION {[1..n -> [key : ParamKeys, value : ParamValues]] :
                      n \in 0..MaxParams} :
        \A i, j \in 1..Len(d) : i # j => d[i].key # d[j].key }

\* What the engine does with one create_chat_completion call.
EngineRun(raises, chunks) == [raises |-> raises, chunks |-> chunks]

AskEngineRuns ==
    { EngineRun(TRUE, <<>>),
      EngineRun(FALSE, <<>>),
      EngineRun(FALSE, <<OtherChunk, ContentChunk(<<72, 105>>),
                         ContentChunk(<<>>), ContentChunk(<<33>>)>>),
      EngineRun(FALSE, <<ContentChunk(<<97>>), OtherChunk,
                         ContentChunk(<<98>>), ErrorChunk,
                         ContentChunk(<<99>>)>>),
      EngineRun(FALSE, <<ContentChunk(<<>>), OtherChunk>>),
      EngineRun(FALSE, <<ContentChunk(<<97>>), ErrorChunk>>),
      EngineRun(FALSE, <<ErrorChunk>>) }

askRest ==
    <<pc, ser, mainVars, sendVars, io, nmsg, failures, reported, startVars,
      appletVars, geoVars>>

\* "if not self.llm: yield ...; return", else the copy of the defaults.
AskEntry ==
    /\ aPc = "entry"
    /\ IF self_llm = "none"
       THEN /\ yielded' = Append(yielded, STR_NotLoaded)
            /\ aPc' = "done"
            /\ UNCHANGED <<final_gen_params, aI>>
       ELSE IF ask_module = "ai"
       THEN /\ final_gen_params' = config
            /\ aI' = 0
            /\ aPc' = IF generation_params = <<>> THEN "create" ELSE "overlay"
            /\ UNCHANGED yielded
       ELSE /\ aPc' = "create"
            /\ UNCHANGED <<final_gen_params, aI, yielded>>
    /\ UNCHANGED <<ask_module, self_llm, generation_params, config, aStream,
                   aPos, engine_calls>>
    /\ UNCHANGED askRest

\* One pass of "for key, value in generation_params.items()".
OverlayItem ==
    /\ aPc = "overlay"
    /\ aI < Len(generation_params)
    /\ LET key == generation_params[aI + 1].key
           value == generation_params[aI + 1].value
           r == Conversion(key, value)
           next == IF aI + 1 = Len(generation_params) THEN "create" ELSE "overlay"
       IN IF Usable(value) /\ key \in FloatKeys \cup IntKeys
          THEN IF r.ok
               THEN /\ final_gen_params' =
                          [final_gen_params EXCEPT ![key] = r.value]
                    /\ aPc' = next
               ELSE IF Caught(r.error)
               THEN /\ aPc' = next
                    /\ UNCHANGED final_gen_params
               ELSE \* the exception leaves the generator
                    /\ aPc' = "raised"
                    /\ UNCHANGED final_gen_params
          ELSE /\ aPc' = next
               /\ UNCHANGED final_gen_params
    /\ aI' = aI + 1
    /\ UNCHANGED <<ask_module, self_llm, generation_params, config, aStream,
                   aPos, yielded, engine_calls>>
    /\ UNCHANGED askRest

\* Faulty variant of ExceptException: the error is swallowed without a
\* placeholder.
ExceptExceptionSilent(ys) == ys

\* "except Exception as e": the error is logged and the placeholder yielded.
ExceptException(ys) == Append(ys, STR_Sorry)

\* response_stream = self.llm.create_chat_completion(...), inside the try.
CreateChatCompletion ==
    /\ aPc = "create"
    /\ engine_calls' = engine_calls + 1
    /\ IF aStream.raises
       THEN /\ yielded' = ExceptException(yielded)
            /\ aPc' = "done"
       ELSE /\ aPc' = "stream"
            /\ UNCHANGED yielded
    /\ aPos' = 0
    /\ UNCHANGED <<ask_module, self_llm, generation_params, config,
                   final_gen_params, aI, aStream>>
    /\ UNCHANGED askRest

\* What ask does with one chunk: ai.py yields a content that is truthy,
\* ai_core.py (called without a stop_event) every delta that has the key.
YieldsOf(module, chunk) ==
    /\ chunk.kind = "content"
    /\ module = "ai" => chunk.text # <<>>

\* One pass of "for chunk in response_stream", or its end.
AskPull ==
    /\ aPc = "stream"
    /\ IF aPos = Len(aStream.chunks)
       THEN /\ aPc' = "done"
            /\ UNCHANGED <<aPos, yielded>>
       ELSE LET chunk == aStream.chunks[aPos + 1]
            IN /\ aPos' = aPos + 1
               /\ IF chunk.kind = "error"
                  THEN /\ yielded' = ExceptException(yielded)
                       /\ aPc' = "done"
                  ELSE /\ yielded' = IF YieldsOf(ask_module, chunk)
                                     THEN Append(yielded, chunk.text)
                                     ELSE yielded
                       /\ aPc' = "stream"
    /\ UNCHANGED <<ask_module, self_llm, generation_params, config,
                   final_gen_params, aI, aStream, engine_calls>>
    /\ UNCHANGED askRest

AskNext ==
    \/ AskEntry
    \/ OverlayItem
    \/ CreateChatCompletion
    \/ AskPull

\* The chat loop and the applet while another program is looked at alone.
Alone(program) ==
    /\ pc = program
    /\ ser = "none"
    /\ messages = <<>>
    /\ saved = <<>>
    /\ user_input = <<>>
    /\ heard = "none"
    /\ stream = <<>>
    /\ pos = 0
    /\ assistant_response_full = <<>>
    /\ displayed = <<>>
    /\ turns = 0
    /\ sPc = "idle"
    /\ sPrefix = "USER"
    /\ sText = <<>>
    /\ sRet = "input"
    /\ sClean = <<>>
    /\ sMode = "SINGLE"
    /\ sI = 0
    /\ io = <<>>
    /\ nmsg = 0
    /\ failures = 0
    /\ reported = 0
    /\ args = [use_arduino |-> FALSE, history |-> "None", prompt |-> "None",
               use_voice |-> FALSE]
    /\ history_file = "missing"
    /\ prompt_file = "missing"
    /\ warnings = 0
    /\ AppletOff

\* ai.py's ask on a loaded model, for every incoming dict.
OverlayInit ==
    /\ Alone("ask")
    /\ GeoOff
    /\ ask_module = "ai"
    /\ self_llm \in {"loaded", "none"}
    /\ generation_params \in ParamDicts
    /\ config = DefaultGenerationParams
    /\ final_gen_params = <<>>
    /\ aPc = "entry"
    /\ aI = 0
    /\ aStream = EngineRun(FALSE, <<ContentChunk(<<72, 105>>)>>)
    /\ aPos = 0
    /\ yielded = <<>>
    /\ engine_calls = 0

OverlaySpec == OverlayInit /\ [][AskNext]_vars

\* Either ask, on a loaded or missing model, for every run of the engine.
AskInit ==
    /\ Alone("ask")
    /\ GeoOff
    /\ ask_module \in {"ai", "ai_core"}
    /\ self_llm \in {"loaded", "none"}
    /\ generation_params \in
          IF ask_module = "ai"
          THEN {<<>>, <<[key |-> "top_k", value |-> PyStr(STR_7)]>>}
          ELSE {<<>>}
    /\ config = IF ask_module = "ai" THEN DefaultGenerationParams ELSE <<>>
    /\ final_gen_params = <<>>
    /\ aPc = "entry"
    /\ aI = 0
    /\ aStream \in AskEngineRuns
    /\ aPos = 0
    /\ yielded = <<>>
    /\ engine_calls = 0

AskSpec == AskInit /\ [][AskNext]_vars

(***************************************************************************)
(* geocode_places of news_study.py: for each candidate place the cleaned   *)
(* name is filtered, looked up in the sqlite cache, and otherwise given to *)
(* the geocoder, with up to three attempts.                                *)
(***************************************************************************)
\* _STOPWORDS, in lower case.
STOPWORDS ==
    { <<97, 110, 100>>, <<98, 117, 116>>, <<105, 116>>, <<116, 104, 101>>,
      <<97>>, <<97, 110>>, <<111, 110, 101>>, <<108, 101, 116, 115>>, <<108,
      101, 116, 39, 115>>, <<104, 101>>, <<115, 104, 101>>, <<116, 104, 101,
      121>>, <<104, 105, 115>>, <<104, 101, 114>>, <<116, 104, 105, 115>>,
      <<116, 104, 97, 116>>, <<105, 115>>, <<119, 97, 115>>, <<105, 110>>,
      <<111, 110>>, <<97, 116>>, <<98, 121>>, <<102, 111, 114>>, <<102, 114,
      111, 109>>, <<119, 105, 116, 104>>, <<97, 115>>, <<111, 102>>, <<110,
      101, 119, 115>>, <<117, 112, 100, 97, 116, 101>>, <<114, 101, 112,
      111, 114, 116>>, <<109, 111, 110, 100, 97, 121>>, <<116, 117, 101,
      115, 100, 97, 121>>, <<119, 101, 100, 110, 101, 115, 100, 97, 121>>,
      <<116, 104, 117, 114, 115, 100, 97, 121>>, <<102, 114, 105, 100, 97,
      121>>, <<115, 97, 116, 117, 114, 100, 97, 121>>, <<115, 117, 110, 100,
      97, 121>>, <<106, 97, 110, 117, 97, 114, 121>>, <<102, 101, 98, 114,
      117, 97, 114, 121>>, <<109, 97, 114, 99, 104>>, <<97, 112, 114, 105,
      108>>, <<109, 97, 121>>, <<106, 117, 110, 101>>, <<106, 117, 108,
      121>>, <<97, 117, 103, 117, 115, 116>>, <<115, 101, 112, 116, 101,
      109, 98, 101, 114>>, <<111, 99, 116, 111, 98, 101, 114>>, <<110, 111,
      118, 101, 109, 98, 101, 114>>, <<100, 101, 99, 101, 109, 98, 101,
      114>>, <<115, 101, 118, 101, 114, 97, 108>>, <<109, 97, 110, 121>>,
      <<109, 111, 115, 116>>, <<104, 117, 110, 100, 114, 101, 100, 115>>,
      <<116, 104, 111, 117, 115, 97, 110, 100, 115>>, <<100, 111, 122, 101,
      110, 115>>, <<109, 111, 110, 116, 104, 115>>, <<121, 101, 97, 114,
      115>> }

\* The words that make a result type place-like.
PlaceLikeWords ==
    { <<99, 105, 116, 121>>, <<116, 111, 119, 110>>, <<118, 105, 108, 108,
      97, 103, 101>>, <<104, 97, 109, 108, 101, 116>>, <<115, 117, 98, 117,
      114, 98>>, <<99, 111, 117, 110, 116, 121>>, <<115, 116, 97, 116,
      101>>, <<99, 111, 117, 110, 116, 114, 121>>, <<108, 111, 99, 97, 108,
      105, 116, 121>>, <<115, 113, 117, 97, 114, 101>>, <<105, 115, 108, 97,
      110, 100>>, <<98, 111, 114, 111, 117, 103, 104>>, <<110, 101, 105,
      103, 104, 98, 111, 117, 114, 104, 111, 111, 100>>, <<114, 101, 103,
      105, 111, 110>> }

STR_Paris == <<80, 97, 114, 105, 115>>

STR_ParisDot == <<32, 80, 97, 114, 105, 115, 46>>

STR_NYC == <<78, 89, 67>>

STR_May == <<77, 97, 121>>

STR_Romes == <<40, 82, 111, 109, 101, 39, 115, 41>>

STR_ParisFrance == <<80, 97, 114, 105, 115, 44, 32, 70, 114, 97, 110, 99, 101>>

STR_France == <<70, 114, 97, 110, 99, 101>>

STR_CafeParis == <<67, 97, 102, 101, 44, 32, 80, 97, 114, 105, 115>>

STR_city == <<99, 105, 116, 121>>

STR_Town == <<84, 111, 119, 110>>

STR_administrative == <<97, 100, 109, 105, 110, 105, 115, 116, 114, 97, 116, 105, 118, 101>>

STR_place == <<112, 108, 97, 99, 101>>

STR_boundary == <<98, 111, 117, 110, 100, 97, 114, 121>>

STR_amenity == <<97, 109, 101, 110, 105, 116, 121>>

OpenChars == {39, 34, 96, 8216, 8217, 8220, 8221, 40, 91}
CloseChars == {39, 34, 96, 8216, 8217, 8220, 8221, 41, 93}
TrailingPunctuation == {46, 44, 58, 59, 33, 63, 41, 34}

\* Where the run of closing characters that ends s begins; Len(s) + 1 when
\* there is none.
CloseSuffixStart(s) ==
    CHOOSE i \in 1..(Len(s) + 1) :
        /\ \A j \in i..Len(s) : s[j] \in CloseChars
        /\ i = 1 \/ s[i - 1] \notin CloseChars

\* The characters of s at the positions in keep, in order.
Pick(s, keep) ==
    [i \in 1..Cardinality(keep) |->
        s[CHOOSE j \in keep : Cardinality({k \in keep : k <= j}) = i]]

\* re.sub(r'[openers]+|[closers]+$', '', s): every opening character goes,
\* and the closing characters at the end.
RemoveBrackets(s) ==
    Pick(s, {j \in 1..Len(s) :
                s[j] \notin OpenChars /\ j < CloseSuffixStart(s)})

\* s.rstrip(chars)
RStrip(s, chars) ==
    SubSeq(s, 1, CHOOSE k \in 0..Len(s) :
                    /\ \A j \in (k + 1)..Len(s) : s[j] \in chars
                    /\ k = 0 \/ s[k] \notin chars)

\* \w, for the characters of the names checked.
IsWordChar(c) == c \in (48..57) \cup (65..90) \cup (97..122) \cup {95}

\* re.sub(r"\b's$|’s$", "", s)
RemovePossessive(s) ==
    IF /\ Len(s) >= 3
       /\ s[Len(s) - 1] = 39
       /\ s[Len(s)] = 115
       /\ IsWordChar(s[Len(s) - 2])
    THEN SubSeq(s, 1, Len(s) - 2)
    ELSE IF Len(s) >= 2 /\ s[Len(s) - 1] = 8217 /\ s[Len(s)] = 115
    THEN SubSeq(s, 1, Len(s) - 2)
    ELSE s

\* re.sub(r"\s+", " ", s)
CollapseWhitespace(s) ==
    LET first == {j \in 1..Len(s) :
                     s[j] \in Whitespace => (j = 1 \/ s[j - 1] \notin Whitespace)}
        kept == Pick(s, first)
    IN  [i \in 1..Len(kept) |-> IF kept[i] \in Whitespace THEN SPACE ELSE kept[i]]

clean_place_name(name) ==
    IF name = <<>> THEN <<>>
    ELSE CollapseWhitespace(
            RemovePossessive(
               RStrip(RemoveBrackets(Strip(name)), TrailingPunctuation)))

HasSpace(s) == \E j \in 1..Len(s) : s[j] = SPACE

\* str.isupper(), for ASCII letters.
IsUpper(s) ==
    /\ \E j \in 1..Len(s) : s[j] \in 65..90
    /\ \A j \in 1..Len(s) : s[j] \notin 97..122

\* The "basic filters": the candidate is skipped before the cache is read.
Skipped(name) ==
    \/ name = <<>>
    \/ Len(name) < 3 /\ ~HasSpace(name)
    \/ Lower(name) \in STOPWORDS
    \/ IsUpper(name) /\ Len(name) <= 3 /\ ~HasSpace(name)

\* What the geocoder gives: a location, None, or an exception.
Location(lat, lon, address, type, class) ==
    [none |-> FALSE, latitude |-> lat, longitude |-> lon, address |-> address,
     raw |-> [type |-> type, class |-> class]]
NoLocation ==
    [none |-> TRUE, latitude |-> 0, longitude |-> 0, address |-> <<>>,
     raw |-> [type |-> <<>>, class |-> <<>>]]

GeoReturns(loc) == [raises |-> "none", loc |-> loc]
GeoRaises(exc) == [raises |-> exc, loc |-> NoLocation]

\* except (GeocoderTimedOut, GeocoderUnavailable, RequestException)
RetriedErrors == {"GeocoderTimedOut", "GeocoderUnavailable", "RequestException"}

Locations ==
    { Location(48, 2, STR_ParisFrance, STR_city, STR_place),
      Location(46, 2, STR_France, STR_administrative, STR_boundary),
      Location(49, 3, STR_CafeParis, <<>>, STR_amenity),
      Location(41, 12, STR_Paris, STR_Town, <<>>) }

GeocoderOutcomes ==
    {GeoReturns(loc) : loc \in Locations \cup {NoLocation}}
      \cup {GeoRaises(exc) : exc \in RetriedErrors \cup {"ValueError"}}

\* sub in s, for two strings.
Contains(sub, s) ==
    \E i \in 1..(Len(s) - Len(sub) + 1) : SubSeq(s, i, i + Len(sub) - 1) = sub

\* typ = raw.get('type') or raw.get('class') or '', in lower case.
TypeOf(loc) ==
    Lower(IF loc.raw.type # <<>> THEN loc.raw.type ELSE loc.raw.class)

\* Faulty variant of Accepted: every location is taken.
AcceptedAlways(loc) == TRUE

\* "if place_like or ',' in getattr(loc, 'address', '')"
Accepted(loc) ==
    \/ \E k \in PlaceLikeWords : Contains(k, TypeOf(loc))
    \/ \E j \in 1..Len(loc.address) : loc.address[j] = 44

\* d[k] = v on a dict.
Put(d, k, v) == [x \in DOMAIN d \cup {k} |-> IF x = k THEN v ELSE d[x]]

\* The entries of calls.
CacheRead == [op |-> "get_cached", raises |-> "none", seconds |-> 0]
CacheWrite(exc) == [op |-> "set_cached", raises |-> exc, seconds |-> 0]
GeocodeCall(exc) == [op |-> "geocode", raises |-> exc, seconds |-> 0]
SleepCall(seconds) == [op |-> "sleep", raises |-> "none", seconds |-> seconds]

max_attempts == 3

MaxPlaces == 2

PlaceNames == {<<>>, STR_Paris, STR_ParisDot, STR_NYC, STR_May, STR_Romes}

\* clean_place_name of each candidate, worked out once.
CleanedNames == [name \in PlaceNames |-> clean_place_name(name)]

PlaceLists == UNION {[1..n -> PlaceNames] : n \in 0..MaxPlaces}

CachedParis == [lat |-> 48, lon |-> 2, resolved |-> STR_ParisFrance]

geoRest ==
    <<pc, ser, mainVars, sendVars, io, nmsg, failures, reported, startVars,
      appletVars, askVars>>

\* Faulty variant of AfterFailure: the backoff is slept after the last
\* attempt as well.
AfterFailureAlwaysSleeps(n) == "sleep"

\* After a retried error on attempt n: "if attempts < max_attempts: sleep,
\* else: break".
AfterFailure(n) == IF n < max_attempts THEN "sleep" ELSE "for"

\* "for p in places": the next candidate is cleaned and filtered; after the
\* last one, conn.close() and return coords.
NextPlace ==
    /\ gPc = "for"
    /\ IF gI = Len(places)
       THEN /\ gPc' = "returned"
            /\ UNCHANGED <<gI, p_clean, calls>>
       ELSE \E cleaned \in {CleanedNames[places[gI + 1]]} :
               /\ gI' = gI + 1
               /\ p_clean' = cleaned
               /\ calls' = <<>>
               /\ gPc' = IF Skipped(cleaned) THEN "for" ELSE "cache"
    /\ UNCHANGED <<places, coords, cache, attempts, backoff, success>>
    /\ UNCHANGED geoRest

\* cached = _get_cached(conn, p_clean); a hit goes into the result.
CheckCache ==
    /\ gPc = "cache"
    /\ calls' = Append(calls, CacheRead)
    /\ IF p_clean \in DOMAIN cache
       THEN /\ coords' = Put(coords, p_clean,
                             <<cache[p_clean].lat, cache[p_clean].lon>>)
            /\ gPc' = "for"
            /\ UNCHANGED <<attempts, backoff, success>>
       ELSE /\ attempts' = 0
            /\ backoff' = 1
            /\ success' = FALSE
            /\ gPc' = "while"
            /\ UNCHANGED coords
    /\ UNCHANGED <<places, gI, p_clean, cache>>
    /\ UNCHANGED geoRest

\* One pass of "while attempts < max_attempts and not success", up to the
\* sleep; or the end of the loop.
Attempt ==
    /\ gPc = "while"
    /\ IF attempts < max_attempts /\ ~success
       THEN /\ attempts' = attempts + 1
            /\ \E outcome \in GeocoderOutcomes :
                  IF outcome.raises = "none"
                  THEN IF ~outcome.loc.none /\ Accepted(outcome.loc)
                       THEN /\ coords' =
                                  Put(coords, p_clean,
                                      <<outcome.loc.latitude,
                                        outcome.loc.longitude>>)
                            /\ \/ \* _set_cached commits
                                  /\ cache' =
                                        Put(cache, p_clean,
                                            [lat |-> outcome.loc.latitude,
                                             lon |-> outcome.loc.longitude,
                                             resolved |-> outcome.loc.address])
                                  /\ calls' = calls \o <<GeocodeCall("none"),
                                                         CacheWrite("none")>>
                                  /\ success' = TRUE
                                  /\ gPc' = "while"
                               \/ \* sqlite raises: "except Exception", break
                                  /\ calls' = calls \o
                                       <<GeocodeCall("none"),
                                         CacheWrite("sqlite3.Error")>>
                                  /\ gPc' = "for"
                                  /\ UNCHANGED <<cache, success>>
                       ELSE \* rejected, or nothing found
                            /\ calls' = Append(calls, GeocodeCall("none"))
                            /\ success' = TRUE
                            /\ gPc' = "while"
                            /\ UNCHANGED <<coords, cache>>
                  ELSE /\ calls' = Append(calls, GeocodeCall(outcome.raises))
                       /\ gPc' = IF outcome.raises \in RetriedErrors
                                 THEN AfterFailure(attempts + 1)
                                 ELSE "for"
                       /\ UNCHANGED <<coords, cache, success>>
       ELSE /\ gPc' = "for"
            /\ UNCHANGED <<attempts, coords, cache, success, calls>>
    /\ UNCHANGED <<places, gI, p_clean, backoff>>
    /\ UNCHANGED geoRest

\* _time.sleep(backoff); backoff *= 2
BackoffSleep ==
    /\ gPc = "sleep"
    /\ calls' = Append(calls, SleepCall(backoff))
    /\ backoff' = backoff * 2
    /\ gPc' = "while"
    /\ UNCHANGED <<places, gI, p_clean, coords, cache, attempts, success>>
    /\ UNCHANGED geoRest

GeoNext ==
    \/ NextPlace
    \/ CheckCache
    \/ Attempt
    \/ BackoffSleep

\* A call of geocode_places, on an empty cache or one that holds Paris.
GeoInit ==
    /\ Alone("geocode_places")
    /\ AskOff
    /\ places \in PlaceLists
    /\ gPc = "for"
    /\ gI = 0
    /\ p_clean = <<>>
    /\ coords = <<>>
    /\ cache \in {<<>>, Put(<<>>, STR_Paris, CachedParis)}
    /\ attempts = 0
    /\ backoff = 0
    /\ success = FALSE
    /\ calls = <<>>

GeoSpec == GeoInit /\ [][GeoNext]_vars

\* The function runs on: each of its steps is taken when it is the next one.
GeoFairSpec ==
    /\ GeoInit
    /\ [][GeoNext]_vars
    /\ WF_vars(NextPlace)
    /\ WF_vars(CheckCache)
    /\ WF_vars(Attempt)
    /\ WF_vars(BackoffSleep)



(***************************************************************************)
(* Reading the log.                                                        *)
(***************************************************************************)
\* The frames of message m that reached the channel, in emission order.
Frames(m) == SelectSeq(io, LAMBDA e : e.msg = m /\ e.op = "write" /\ e.ok)

\* Message m met a channel error.
Failed(m) == \E j \in 1..Len(io) : io[j].msg = m /\ ~io[j].ok

\* The call that sent message m has returned, and no write or flush failed.
Completed(m) ==
    /\ m \in 1..nmsg
    /\ (m < nmsg \/ sPc = "idle")
    /\ ~Failed(m)

RECURSIVE ConcatPayloads(_)
ConcatPayloads(fs) ==
    IF fs = <<>> THEN <<>> ELSE Head(fs).payload \o ConcatPayloads(Tail(fs))

CeilDiv(a, b) == (a + b - 1) \div b

(***************************************************************************)
(* C1.  On an open channel and with no write error, the payloads of the    *)
(* frames of one call, concatenated in emission order, are exactly the     *)
(* normalized text, text.strip().replace('\n', ' '), and no payload is     *)
(* longer than 200 characters.                                             *)
(***************************************************************************)
C1_ChunkingCoverage ==
    /\ \A j \in 1..Len(io) : io[j].op = "write" => Len(io[j].payload) <= 200
    /\ Completed(1) =>
          ConcatPayloads(Frames(1)) = ReplaceNewlines(Strip(sText))

C1_Witness ==
    /\ Completed(1)
    /\ Len(Frames(1)) >= 4
    /\ Len(Frames(1)[3].payload) \in 1..199
    /\ Normalize(sText) # sText

(***************************************************************************)
(* C2.  A call that completes without a write error has emitted either     *)
(* exactly one single frame, or one START frame first, then only APPEND    *)
(* frames, then one END frame with an empty payload last, all with the     *)
(* prefix of the call.                                                     *)
(***************************************************************************)
WellFramed(fs, prefix) ==
    /\ fs # <<>>
    /\ \A j \in 1..Len(fs) : fs[j].prefix = prefix
    /\ \/ Len(fs) = 1 /\ fs[1].mode = "SINGLE"
       \/ /\ Len(fs) >= 2
          /\ fs[1].mode = "START"
          /\ fs[Len(fs)].mode = "END"
          /\ fs[Len(fs)].payload = <<>>
          /\ \A j \in 2..(Len(fs) - 1) : fs[j].mode = "APPEND"

C2_FrameSequence == Completed(1) => WellFramed(Frames(1), sPrefix)

C2_Witness ==
    /\ Completed(1)
    /\ Frames(1)[1].mode = "START"
    /\ Frames(1)[Len(Frames(1))].mode = "END"

(***************************************************************************)
(* C4.  The normalized length n fixes the frames: n <= 200 gives one       *)
(* single frame; n > 200 gives ceil(n/200)+1 frames, START with the        *)
(* characters [0,200), the i-th APPEND with [200i, min(200(i+1), n)), END  *)
(* with nothing.  So 200 gives one frame, 201 gives START, an APPEND of    *)
(* one character and END, and 450 gives START, APPEND, APPEND of 50        *)
(* characters, END.                                                        *)
(***************************************************************************)
ExpectedFrames(clean) ==
    LET n == Len(clean)
        k == CeilDiv(n, 200)
        hi(i) == IF 200 * (i + 1) < n THEN 200 * (i + 1) ELSE n
    IN  IF n <= 200
        THEN <<[mode |-> "SINGLE", payload |-> clean]>>
        ELSE [j \in 1..(k + 1) |->
                 IF j = 1 THEN [mode |-> "START", payload |-> SubSeq(clean, 1, 200)]
                 ELSE IF j = k + 1 THEN [mode |-> "END", payload |-> <<>>]
                 ELSE [mode |-> "APPEND",
                       payload |-> SubSeq(clean, 200 * (j - 1) + 1, hi(j - 1))]]

FramesWritten(m) ==
    [j \in 1..Len(Frames(m)) |->
        [mode |-> Frames(m)[j].mode, payload |-> Frames(m)[j].payload]]

C4_FrameCountAndContent ==
    Completed(1) =>
        LET n == Len(Normalize(sText))
            fs == FramesWritten(1)
        IN  /\ fs = ExpectedFrames(Normalize(sText))
            /\ n = 200 => Len(fs) = 1 /\ fs[1].mode = "SINGLE"
            /\ n = 201 =>
                  /\ Len(fs) = 3
                  /\ fs[2].mode = "APPEND"
                  /\ Len(fs[2].payload) = 1
            /\ n = 450 =>
                  /\ Len(fs) = 4
                  /\ <<fs[1].mode, fs[2].mode, fs[3].mode, fs[4].mode>>
                        = <<"START", "APPEND", "APPEND", "END">>
                  /\ Len(fs[3].payload) = 50

C4_Witness ==
    /\ Completed(1)
    /\ Len(Normalize(sText)) = 450
    /\ Len(Frames(1)) = 4

C4_WitnessBoundary ==
    /\ Completed(1)
    /\ Len(Normalize(sText)) = 200
    /\ Len(Frames(1)) = 1

(***************************************************************************)
(* C5.  The payload of every frame written is at most 200 bytes once       *)
(* encoded in UTF-8, also for text with multi-byte characters.             *)
(***************************************************************************)
C5_PayloadBytes ==
    \A j \in 1..Len(io) :
        io[j].op = "write" => Utf8Len(io[j].payload) <= 200

(***************************************************************************)
(* C7.  With no channel (ser is None) a call returns at once, for every    *)
(* prefix and text: nothing is written, flushed or slept, and no state     *)
(* changes.                                                                *)
(***************************************************************************)
C7_NoChannelNoOp ==
    /\ [](ser = "none" => io = <<>> /\ sPc \in {"idle", "entry"})
    /\ [][(sPc = "entry" /\ ser = "none") =>
            /\ sPc' = "idle"
            /\ pc' = sRet
            /\ UNCHANGED <<ser, io, nmsg, failures, reported, sClean, sMode, sI>>
            /\ UNCHANGED mainVars]_vars

C7_Witness == ser = "none" /\ sPc = "idle" /\ pc = "returned" /\ Len(sText) > 200

(***************************************************************************)
(* C8.  In a multi-frame message every frame is written, then flushed,     *)
(* and a delay of 50 ms lies between every two consecutive frame writes    *)
(* (after START and after every APPEND, so also before END); write, flush  *)
(* and sleep follow one another strictly in this order.                    *)
(***************************************************************************)
SameMessage(j, k) == k >= 1 /\ io[k].msg = io[j].msg

C8_WriteFlushSleepOrder ==
    \A j \in 1..Len(io) :
        /\ (io[j].op = "flush" /\ io[j].msg > 0) =>
              /\ SameMessage(j, j - 1)
              /\ io[j - 1].op = "write" /\ io[j - 1].ok
        /\ (io[j].op = "sleep" /\ io[j].msg > 0) =>
              /\ io[j].ms = 50
              /\ SameMessage(j, j - 1)
              /\ io[j - 1].op = "flush" /\ io[j - 1].ok
              /\ io[j - 1].mode \in {"START", "APPEND"}
        /\ (io[j].op = "write" /\ io[j].mode \in {"APPEND", "END"}) =>
              /\ SameMessage(j, j - 3)
              /\ io[j - 1].op = "sleep" /\ io[j - 1].ms = 50
              /\ io[j - 2].op = "flush"
              /\ io[j - 3].op = "write"
        /\ (io[j].op = "write" /\ io[j].mode \in {"SINGLE", "START"}) =>
              (j = 1 \/ io[j - 1].msg # io[j].msg)

C8_Witness ==
    /\ Completed(1)
    /\ Len(SelectSeq(io, LAMBDA e : e.op = "sleep" /\ e.msg = 1)) >= 3
    /\ io[Len(io)].op = "flush" /\ io[Len(io)].mode = "END"

(***************************************************************************)
(* The chat loop: reading the log of a whole session.                      *)
(***************************************************************************)
\* The frames that reached the channel, of all messages, in emission order.
Wire == SelectSeq(io, LAMBDA e : e.op = "write" /\ e.ok)

\* The call that sent message m has returned.
Returned(m) == m \in 1..nmsg /\ (m < nmsg \/ sPc = "idle")

\* A beginning of a well-framed message.
PrefixFramed(fs) ==
    \/ fs = <<>>
    \/ Len(fs) = 1 /\ fs[1].mode = "SINGLE"
    \/ /\ fs[1].mode = "START"
       /\ \A j \in 2..Len(fs) :
             fs[j].mode = "APPEND" \/ (fs[j].mode = "END" /\ j = Len(fs))

\* The fragments the producer yields, joined: f1 + f2 + ... + fn.
RECURSIVE JoinFragments(_)
JoinFragments(st) ==
    IF st = <<>> THEN <<>>
    ELSE (IF Head(st).kind = "content" THEN Head(st).text ELSE <<>>)
            \o JoinFragments(Tail(st))

ContentChunks(st) == SelectSeq(st, LAMBDA c : c.kind = "content")

\* t is s without its leading and trailing whitespace.
IsTrimOf(t, s) ==
    /\ Len(t) <= Len(s)
    /\ t # <<>> => t[1] \notin Whitespace /\ t[Len(t)] \notin Whitespace
    /\ \E a \in 0..(Len(s) - Len(t)) :
          /\ \A i \in 1..a : s[i] \in Whitespace
          /\ \A i \in (a + Len(t) + 1)..Len(s) : s[i] \in Whitespace
          /\ SubSeq(s, a + 1, a + Len(t)) = t

(***************************************************************************)
(* C3, as claimed.  On the write trace of the channel, with writes         *)
(* allowed to fail, a START frame is followed only by APPEND frames of     *)
(* its message and then by its END before any frame of another message.    *)
(***************************************************************************)
C3_StartDrainedBeforeNext ==
    \A j \in 1..Len(Wire) :
        Wire[j].mode = "START" =>
            \A k \in (j + 1)..Len(Wire) :
                Wire[k].msg # Wire[j].msg =>
                    \E e \in (j + 1)..(k - 1) :
                        /\ Wire[e].msg = Wire[j].msg
                        /\ Wire[e].mode = "END"
                        /\ \A a \in (j + 1)..(e - 1) :
                              Wire[a].msg = Wire[j].msg /\ Wire[a].mode = "APPEND"

(***************************************************************************)
(* C3, amended.  Frames of two messages never interleave: all frames of    *)
(* a message precede all frames of the next one.  A message whose writes   *)
(* and flushes all succeed is one single frame or START, APPEND frames     *)
(* and END; a message that meets a channel error stops at that error, its  *)
(* frames so far being a beginning of such a sequence (a START may then    *)
(* stay without its END), and the next message begins after it.            *)
(***************************************************************************)
C3_NoInterleaving ==
    /\ \A j \in 1..(Len(Wire) - 1) : Wire[j].msg <= Wire[j + 1].msg
    /\ \A m \in 1..nmsg :
          /\ PrefixFramed(Frames(m))
          /\ (Returned(m) /\ ~Failed(m)) =>
                WellFramed(Frames(m), Frames(m)[1].prefix)
          /\ \A j \in 1..Len(io) :
                (io[j].msg = m /\ ~io[j].ok) =>
                    \A k \in (j + 1)..Len(io) : io[k].msg # m

C3_Witness ==
    \E j \in 1..(Len(Wire) - 1) :
        /\ Wire[j].mode = "START"
        /\ Failed(Wire[j].msg)
        /\ Wire[j + 1].msg > Wire[j].msg
        /\ Wire[j + 1].mode = "START"

(***************************************************************************)
(* C6.  When a write or a flush raises a channel error, no later frame of  *)
(* that message is written and the failed step is not tried again; the     *)
(* error is reported once, the handle stays open, the call returns to the  *)
(* chat loop, and the next call attempts its frames on the same handle.    *)
(***************************************************************************)
FailureStep == Len(io') = Len(io) + 1 /\ ~io'[Len(io')].ok

C6_WriteErrorAbortsMessageOnly ==
    /\ [](\A j \in 1..Len(io) :
             ~io[j].ok => \A k \in (j + 1)..Len(io) : io[k].msg # io[j].msg)
    /\ [](reported = failures)
    /\ [](failures > 0 /\ pc \notin {"closing", "done"} => ser = "open")
    /\ [][FailureStep =>
            /\ reported' = reported + 1
            /\ ser = "open" /\ ser' = "open"
            /\ sPc' = "idle"
            /\ pc' = sRet
            /\ pc' \in {"input", "after_user_send", "save"}
            /\ UNCHANGED mainVars]_vars
    /\ [][(sPc = "entry" /\ failures > 0) =>
            (sPc' = "write" /\ ser' = "open" /\ nmsg' = nmsg + 1)]_vars

C6_Witness ==
    /\ ser = "open"
    /\ \E j \in 1..Len(io) :
          /\ ~io[j].ok
          /\ io[j].mode = "START"
          /\ \E k \in (j + 1)..Len(io) :
                io[k].op = "write" /\ io[k].ok /\ io[k].msg = io[j].msg + 1

(***************************************************************************)
(* C9.  The transport of an assistant reply starts only when the           *)
(* producer's stream is exhausted: nothing is written on the channel       *)
(* while fragments are still being taken, and the GEMMA frames carry the   *)
(* whole reply (the normalized concatenation of all its fragments).        *)
(***************************************************************************)
C9_TransportAfterStreamEnd ==
    /\ [][Len(io') > Len(io) => (pos = Len(stream) /\ pos' = pos)]_vars
    /\ [](sPc # "idle" => pos = Len(stream))
    /\ []((pc = "save" /\ ser = "open" /\ ~Failed(nmsg)) =>
            /\ \A j \in 1..Len(Frames(nmsg)) : Frames(nmsg)[j].prefix = "GEMMA"
            /\ ConcatPayloads(Frames(nmsg))
                  = ReplaceNewlines(Strip(JoinFragments(stream))))

C9_Witness ==
    /\ pc = "save"
    /\ ser = "open"
    /\ ~Failed(nmsg)
    /\ Len(ContentChunks(stream)) >= 3
    /\ Len(Frames(nmsg)) >= 3

(***************************************************************************)
(* C10.  For a producer that yields the fragments f1..fn and ends, the     *)
(* assistant content appended to the history is trim(f1 + ... + fn): the   *)
(* fragments in arrival order, none dropped or repeated, without the       *)
(* leading and trailing whitespace.                                        *)
(***************************************************************************)
ReplyAppended == pc = "save" \/ (pc = "in_send" /\ sRet = "save")

C10_HistoryIsTrimmedConcatenation ==
    ReplyAppended =>
        LET n == Len(messages)
        IN  /\ n >= 3
            /\ messages[n].role = "assistant"
            /\ IsTrimOf(messages[n].content, JoinFragments(stream))
            /\ messages[n - 1] = Message("user", user_input)

C10_Witness ==
    /\ pc = "save"
    /\ Len(ContentChunks(stream)) >= 3
    /\ Len(messages[Len(messages)].content) > CHUNK_SIZE
    /\ messages[Len(messages)].content # JoinFragments(stream)

(***************************************************************************)
(* The applet: reading the idle queue and the log.                         *)
(***************************************************************************)
\* f1 + f2 + ... + fn for a sequence of strings.
RECURSIVE JoinAll(_)
JoinAll(fs) == IF fs = <<>> THEN <<>> ELSE Head(fs) \o JoinAll(Tail(fs))

\* The on_stream_done callbacks that wait in the idle queue.
HandedOver == SelectSeq(idle, LAMBDA cb : cb.fn = "on_stream_done")

(***************************************************************************)
(* C11.  In do_ai_stream, when the stop signal is set after fragment k     *)
(* has been delivered, the response handed to on_stream_done is            *)
(* trim(f1 + ... + fk), and no fragment after fk is pulled from the        *)
(* producer once the signal is set.                                        *)
(***************************************************************************)
C11_StopAfterFragmentK ==
    (stopped_at # NoStop /\ HandedOver # <<>>) =>
        /\ IsTrimOf(HandedOver[1].text,
                    JoinAll(SubSeq(wStream, 1, stopped_at.delivered)))
        /\ wPos = stopped_at.pulled

\* The two parts of C11, each on its own.
C11_HandsOverTrimmed ==
    (stopped_at # NoStop /\ HandedOver # <<>>) =>
        IsTrimOf(HandedOver[1].text,
                 JoinAll(SubSeq(wStream, 1, stopped_at.delivered)))

C11_NothingPulledAfterStop ==
    (stopped_at # NoStop /\ HandedOver # <<>>) => wPos = stopped_at.pulled

\* What the code does: the fragments delivered before the stop, in order and
\* untrimmed, and at most one more fragment pulled and dropped.
C11_HandsOverDelivered ==
    (stopped_at # NoStop /\ HandedOver # <<>>) =>
        /\ HandedOver[1].text
              = JoinAll(SubSeq(wStream, 1, stopped_at.delivered))
        /\ wPos \in {stopped_at.pulled, stopped_at.pulled + 1}

(***************************************************************************)
(* C12.  In main_loop, when the producer raises while a generation is      *)
(* started or streamed, the loop does not crash: it reports the failure,   *)
(* finalizes what was accumulated and goes on to the next user turn.       *)
(***************************************************************************)
C12_LoopSurvivesProducerError ==
    [][(pc \in {"after_user_send", "stream"}) =>
          (pc' \in {"stream", "in_send", "save", "input"})]_vars

(***************************************************************************)
(* C13.  The session does not depend on the channel.  Seen through the     *)
(* position of the loop (a call of send_to_arduino counting as the place   *)
(* it returns to), the history in memory and on file, the input, the       *)
(* generation call and its stream, and the text displayed, every step is   *)
(* either invisible or a step of the loop SessionStep, which is written    *)
(* with no reference to the handle, the log of the channel or its errors;  *)
(* and whatever the channel does, the steps that use it (the open, a       *)
(* send, the close) can always be taken.                                   *)
(***************************************************************************)
APc == IF pc = "in_send" THEN sRet ELSE pc

sessionData ==
    <<messages, saved, history_file, user_input, stream, pos,
      assistant_response_full, displayed, turns, warnings>>

Obs == <<APc, sessionData>>

SessionStep ==
    \/ /\ APc = "start"
       /\ APc' = "init_llm"
       /\ UNCHANGED sessionData
    \/ /\ APc = "init_llm"
       /\ APc' \in {"load", "exited"}
       /\ UNCHANGED sessionData
    \/ /\ APc = "load"
       /\ APc' = "input"
       /\ messages' \in
             { IF Truthy(args.history) /\ history_file = "json" /\ saved # <<>>
               THEN saved
               ELSE <<Message("system", content)>> : content \in {<<>>, STR_Prompt} }
       /\ UNCHANGED <<saved, history_file, user_input, stream, pos,
                      assistant_response_full, displayed, turns>>
    \/ /\ APc = "input"
       /\ user_input' \in UserInputs
       /\ \/ user_input' = <<>> /\ APc' = "input" /\ turns' = turns
          \/ /\ user_input' # <<>>
             /\ Lower(user_input') \in QuitCommands
             /\ APc' = "closing"
             /\ turns' = turns
          \/ /\ Lower(user_input') \in NewsCommands
             /\ APc' = "input"
             /\ turns' = turns + 1
          \/ /\ user_input' # <<>>
             /\ Lower(user_input') \notin QuitCommands \cup NewsCommands
             /\ APc' = "after_user_send"
             /\ turns' = turns + 1
       /\ UNCHANGED <<messages, saved, history_file, stream, pos,
                      assistant_response_full, displayed, warnings>>
    \/ /\ APc = "after_user_send"
       /\ messages' = Append(messages, Message("user", user_input))
       /\ \/ /\ APc' = "stream"
             /\ stream' \in Streams
             /\ pos' = 0
             /\ assistant_response_full' = <<>>
             /\ displayed' = <<>>
          \/ /\ APc' = "crashed"
             /\ UNCHANGED <<stream, pos, assistant_response_full, displayed>>
       /\ UNCHANGED <<saved, history_file, user_input, turns, warnings>>
    \/ /\ APc = "stream"
       /\ pos < Len(stream)
       /\ \/ /\ stream[pos + 1].kind = "error"
             /\ APc' = "crashed"
             /\ UNCHANGED <<pos, assistant_response_full, displayed>>
          \/ /\ stream[pos + 1].kind # "error"
             /\ APc' = "stream"
             /\ pos' = pos + 1
             /\ assistant_response_full' =
                   assistant_response_full \o stream[pos + 1].text
             /\ displayed' = displayed \o stream[pos + 1].text
       /\ UNCHANGED <<messages, saved, history_file, user_input, stream, turns,
                      warnings>>
    \/ /\ APc = "stream"
       /\ pos = Len(stream)
       /\ APc' = "save"
       /\ Len(messages') = Len(messages) + 1
       /\ SubSeq(messages', 1, Len(messages)) = messages
       /\ messages'[Len(messages')].role = "assistant"
       /\ IsTrimOf(messages'[Len(messages')].content, assistant_response_full)
       /\ UNCHANGED <<saved, history_file, user_input, stream, pos,
                      assistant_response_full, displayed, turns, warnings>>
    \/ /\ APc = "save"
       /\ APc' = "input"
       /\ \/ UNCHANGED <<saved, history_file>>
          \/ Truthy(args.history) /\ saved' = messages /\ history_file' = "json"
       /\ UNCHANGED <<messages, user_input, stream, pos,
                      assistant_response_full, displayed, turns, warnings>>
    \/ /\ APc = "closing"
       /\ APc' = "done"
       /\ UNCHANGED sessionData

C13_SessionIndependentOfChannel ==
    /\ [][SessionStep]_Obs
    /\ [][(pc = "in_send") => UNCHANGED Obs]_vars
    /\ [](pc = "start" => ENABLED InitializeArduino)
    /\ [](pc = "in_send" => ENABLED SendNext)
    /\ [](pc = "closing" => ENABLED CloseChannel)

C13_Witness ==
    /\ failures > 0
    /\ ser = "open"
    /\ pc = "input"
    /\ Len(messages) = 3
    /\ messages[3].role = "assistant"
    /\ saved = messages
    /\ displayed # <<>>

(***************************************************************************)
(* Either program: a session of the chat loop, or a session of the applet. *)
(***************************************************************************)
ProgramsInit == Init \/ AppletInit

ProgramsNext == Next \/ AppletNext

ProgramsSpec == ProgramsInit /\ [][ProgramsNext]_vars

(***************************************************************************)
(* C14.  While a response is streamed, what was forwarded to the display   *)
(* is the concatenation of the fragments accumulated so far, in arrival    *)
(* order: each one once, forwarded before the next is taken, and nothing   *)
(* else.  In main_loop the display is the terminal; in do_ai_stream it is  *)
(* the log of the window the question came from, fed through the idle      *)
(* queue, for as long as that window is on screen.                         *)
(***************************************************************************)
\* The insertions made in the log and those still queued, in order.
Forwarded ==
    log \o [j \in 1..Len(SelectSeq(idle, LAMBDA cb : cb.fn = "append_to_log")) |->
              LET cb == SelectSeq(idle, LAMBDA c : c.fn = "append_to_log")[j]
              IN  [text |-> cb.text, tag |-> cb.tag]]

\* The place of the last "AI: " header among them, 0 if there is none.
LastHeader ==
    LET hs == {j \in 1..Len(Forwarded) : Forwarded[j].text = STR_AiHeader}
    IN  IF hs = {} THEN 0 ELSE CHOOSE j \in hs : \A k \in hs : k <= j

SinceHeader == SubSeq(Forwarded, LastHeader + 1, Len(Forwarded))

\* The chunks of the stream the worker has accumulated.
AccumulatedCount == IF wPc = "check" \/ was_stopped THEN wPos - 1 ELSE wPos

C14_DisplayedIsAccumulated ==
    /\ (pc = "stream" \/ (pc = "in_send" /\ sRet = "save")) =>
          /\ displayed = assistant_response_full
          /\ displayed = JoinFragments(SubSeq(stream, 1, pos))
    /\ (wPc \in {"pull", "check", "finish"} /\ wWindow = main_window) =>
          /\ LastHeader > 0
          /\ \A j \in 1..Len(SinceHeader) : SinceHeader[j].tag = "ai_response"
          /\ [j \in 1..Len(SinceHeader) |-> SinceHeader[j].text]
                = SubSeq(wStream, 1, AccumulatedCount)
          /\ full_response = JoinAll(SubSeq(wStream, 1, AccumulatedCount))

C14_Witness ==
    /\ wPc = "check"
    /\ wPos = 3
    /\ Len(SinceHeader) = 2
    /\ log # <<>> /\ log[Len(log)].text = wStream[1]
    /\ idle # <<>> /\ idle[1].text = wStream[2]

C14_WitnessLoop ==
    /\ pc = "stream"
    /\ pos = 4
    /\ Len(ContentChunks(stream)) = 3
    /\ Len(displayed) > CHUNK_SIZE

(***************************************************************************)
(* C15, as claimed.  At the end of the stream the assistant text appended  *)
(* to the history is the concatenation of the fragments trimmed and with   *)
(* its newlines collapsed to spaces: the very string whose slices the      *)
(* transport sends.                                                        *)
(***************************************************************************)
C15_HistoryIsNormalized ==
    ReplyAppended =>
        /\ messages[Len(messages)].content
              = ReplaceNewlines(Strip(JoinFragments(stream)))
        /\ sPc \in {"write", "flush", "sleep"} =>
              messages[Len(messages)].content = sClean

(***************************************************************************)
(* C15, amended.  The assistant text appended to the history is the        *)
(* concatenation of the fragments trimmed, with its newlines kept; the     *)
(* string whose slices the transport sends is that text with every         *)
(* newline replaced by a space.                                            *)
(***************************************************************************)
C15_HistoryTrimmedTransportCollapsed ==
    ReplyAppended =>
        LET content == messages[Len(messages)].content
        IN  /\ messages[Len(messages)].role = "assistant"
            /\ IsTrimOf(content, JoinFragments(stream))
            /\ sPc \in {"write", "flush", "sleep"} =>
                  /\ Len(sClean) = Len(content)
                  /\ \A i \in 1..Len(content) :
                        sClean[i] = IF content[i] = LF THEN SPACE ELSE content[i]
            /\ (pc = "save" /\ ser = "open" /\ ~Failed(nmsg)) =>
                  ConcatPayloads(Frames(nmsg))
                     = [i \in 1..Len(content) |->
                           IF content[i] = LF THEN SPACE ELSE content[i]]

C15_Witness ==
    /\ pc = "in_send"
    /\ sRet = "save"
    /\ sPc = "flush"
    /\ sMode = "END"
    /\ \E i \in 1..Len(messages[Len(messages)].content) :
          messages[Len(messages)].content[i] = LF /\ sClean[i] = SPACE

(***************************************************************************)
(* C16.  When the text is empty after normalization (it is empty, or only  *)
(* whitespace and newlines), a call on an open channel writes exactly one  *)
(* frame, the prefix, a colon and the newline, on the single-frame path,   *)
(* and no START, APPEND or END frame.                                      *)
(***************************************************************************)
OnlyWhitespace(s) == \A i \in 1..Len(s) : s[i] \in Whitespace

C16_EmptyTextOneEmptyFrame ==
    (ser = "open" /\ OnlyWhitespace(sText)) =>
        /\ \A j \in 1..Len(io) :
              io[j].op = "write" =>
                 /\ io[j].mode = "SINGLE"
                 /\ io[j].payload = <<>>
                 /\ FrameLine(io[j]) = PrefixChars(sPrefix) \o <<58, LF>>
        /\ Len(Wire) <= 1
        /\ (sPc = "idle" /\ failures = 0) => Len(Wire) = 1

C16_Witness ==
    /\ ser = "open"
    /\ sPc = "idle"
    /\ failures = 0
    /\ sText = <<SPACE, LF, SPACE>>
    /\ Len(Wire) = 1

(***************************************************************************)
(* C17.  Normalization (strip, then every newline replaced by one space)   *)
(* is idempotent; a normalized string holds no newline and neither begins  *)
(* nor ends with whitespace; so every frame written is one line: its only  *)
(* newline is its last character.                                          *)
(***************************************************************************)
C17_NormalizeIdempotent ==
    LET n == Normalize(sText)
    IN  /\ Normalize(n) = n
        /\ \A i \in 1..Len(n) : n[i] # LF
        /\ n # <<>> => n[1] \notin Whitespace /\ n[Len(n)] \notin Whitespace
        /\ \A j \in 1..Len(io) :
              io[j].op = "write" =>
                 LET line == FrameLine(io[j])
                 IN  \A i \in 1..Len(line) : (line[i] = LF) <=> (i = Len(line))

C17_Witness ==
    /\ sText = <<LF, 97, LF>>
    /\ io # <<>>
    /\ io[1].op = "write"
    /\ io[1].payload = <<97>>

C17_WitnessInnerNewline ==
    /\ sText = <<97, LF, 97>>
    /\ io # <<>>
    /\ io[1].payload = <<97, SPACE, 97>>

(***************************************************************************)
(* C18.  When the port cannot be opened, or the flag is off, there is no   *)
(* channel and nothing is aborted: the loop goes on to load the model and  *)
(* to chat, every send returns at once, and no close is attempted at the   *)
(* end.                                                                    *)
(***************************************************************************)
C18_NoChannelSessionRuns ==
    /\ [][(pc = "start") => (pc' = "init_llm")]_vars
    /\ [](ser = "none" => io = <<>> /\ nmsg = 0 /\ failures = 0)
    /\ [][(pc = "in_send" /\ ser = "none") =>
            (pc' = sRet /\ ser' = "none" /\ UNCHANGED <<io, mainVars>>)]_vars
    /\ [][(pc = "closing" /\ ser = "none") =>
            (pc' = "done" /\ ser' = "none" /\ io' = <<>>)]_vars
    /\ []((ser = "none" /\ pc = "init_llm") => ENABLED InitializeLlm)
    /\ []((ser = "none" /\ pc = "input") => ENABLED GetInput)
    /\ []((ser = "none" /\ pc = "in_send") => ENABLED SendEntry)

C18_Witness ==
    /\ args.use_arduino
    /\ ser = "none"
    /\ pc = "done"
    /\ Len(messages) = 3
    /\ messages[3].role = "assistant"
    /\ io = <<>>

(***************************************************************************)
(* C19.  Every write on the channel lies inside the usable life of the     *)
(* handle: after the open and the settle delay of 2 seconds, before the    *)
(* close.  When the session ends on quit, exit or stop, in any letter      *)
(* case, an open handle is closed exactly once, as the last thing done on  *)
(* it, and no send follows.                                                *)
(***************************************************************************)
Closes == SelectSeq(io, LAMBDA e : e.op = "close")

C19_WritesWithinLifetime ==
    /\ [](\A j \in 1..Len(io) :
             io[j].op \in {"write", "flush"} =>
                /\ j >= 3
                /\ io[1].op = "open"
                /\ io[2].op = "sleep" /\ io[2].ms = 2000
                /\ \A k \in 1..j : io[k].op # "close")
    /\ [](Len(Closes) <= 1)
    /\ [](ser = "closed" <=> Len(Closes) = 1)
    /\ [](ser = "closed" => pc = "done" /\ sPc = "idle"
                              /\ io[Len(io)].op = "close")
    /\ []((pc = "done" /\ io # <<>>) => ser = "closed")
    /\ [][(pc = "input" /\ user_input' # <<>> /\ pc' # "input"
            /\ Lower(user_input') \in {STR_quit, STR_exit, STR_stop}) =>
              (pc' = "closing")]_vars
    /\ [](pc = "closing" => ENABLED CloseChannel)

C19_Witness ==
    /\ pc = "done"
    /\ ser = "closed"
    /\ user_input = STR_Stop
    /\ Len(Wire) >= 4
    /\ failures = 0

(***************************************************************************)
(* C20.  load_history returns None when no path is given, when the file    *)
(* is missing, and when it cannot be read or parsed, which it reports      *)
(* without raising; main_loop then begins with a history of exactly one    *)
(* message, the system prompt.                                             *)
(***************************************************************************)
NoUsableHistory ==
    \/ args.history \in {"None", ""}
    \/ history_file \in {"missing", "corrupt"}

C20_FreshSessionWithoutHistory ==
    /\ [](NoUsableHistory => load_history(args.history).none)
    /\ [][(pc = "load" /\ NoUsableHistory) =>
            /\ pc' = "input"
            /\ Len(messages') = 1
            /\ messages'[1].role = "system"
            /\ messages'[1].content \in {<<>>, STR_Prompt}
            /\ warnings' =
                  IF args.history = "history.json" /\ history_file = "corrupt"
                  THEN warnings + 1 ELSE warnings]_vars
    /\ []((pc = "input" /\ NoUsableHistory) =>
            /\ Len(messages) = 1
            /\ messages[1].role = "system")

C20_Witness ==
    /\ pc = "input"
    /\ args.history = "history.json"
    /\ history_file = "corrupt"
    /\ saved # <<>>
    /\ warnings = 1
    /\ messages = <<Message("system", STR_Prompt)>>

(***************************************************************************)
(* C21: in voice mode a listen that ends in a timeout, an unintelligible   *)
(* utterance or a request error counts as no input: the step writes no     *)
(* frame, appends no message, starts no generation, saves nothing, and the *)
(* loop is back at the next listen.                                        *)
(***************************************************************************)
C21_FailedListenIsNoInput ==
    [][(pc = "input" /\ args.use_voice /\ heard' \in SpeechErrors)
         => /\ pc' = "input"
            /\ sPc' = "idle"
            /\ UNCHANGED <<io, nmsg, messages, stream, pos, saved,
                           history_file, turns, ser>>]_vars

\* A failed listen has happened after a completed turn, and the loop listens again.
C21_Witness ==
    /\ args.use_voice
    /\ heard \in SpeechErrors
    /\ pc = "input"
    /\ Len(messages) >= 3

\* The items of generation_params the for loop has been through.
Visited == SubSeq(generation_params, 1, aI)

\* The value the claim gives key k after these items.
Overlaid(k, items) ==
    IF \E i \in 1..Len(items) :
          /\ items[i].key = k
          /\ k \in FloatKeys \cup IntKeys
          /\ Usable(items[i].value)
          /\ Conversion(k, items[i].value).ok
    THEN LET i == CHOOSE i \in 1..Len(items) : items[i].key = k
         IN Conversion(k, items[i].value).value
    ELSE DefaultGenerationParams[k]

OverlayStarted == ask_module = "ai" /\ self_llm = "loaded" /\ aPc # "entry"

(***************************************************************************)
(* C22: ai.py's ask overlays the incoming parameters on the defaults: a    *)
(* float key or int key whose value is neither None nor '' and converts    *)
(* gets the converted value; for a value that is None, empty or fails      *)
(* conversion the default is kept and ask goes on; every other default is  *)
(* unchanged, and the stored configuration is never modified.              *)
(***************************************************************************)
C22_OverlayOnDefaults ==
    OverlayStarted =>
        /\ aPc # "raised"
        /\ DOMAIN final_gen_params = DOMAIN DefaultGenerationParams
        /\ \A k \in DOMAIN final_gen_params :
              final_gen_params[k] = Overlaid(k, Visited)
        /\ config = DefaultGenerationParams

\* The same, but for a conversion that ends in an exception the loop does
\* not catch: then ask ends with that exception, before any engine call.
C22_OverlayUnlessOverflow ==
    OverlayStarted =>
        /\ DOMAIN final_gen_params = DOMAIN DefaultGenerationParams
        /\ \A k \in DOMAIN final_gen_params :
              final_gen_params[k] = Overlaid(k, Visited)
        /\ config = DefaultGenerationParams
        /\ aPc = "raised" <=>
              /\ aI > 0
              /\ Usable(Visited[aI].value)
              /\ Conversion(Visited[aI].key, Visited[aI].value).error
                    = "OverflowError"
        /\ aPc = "raised" => engine_calls = 0 /\ yielded = <<>>

\* An incoming top_k of "7" has replaced the default 40, and the engine ran.
C22_WitnessConverted ==
    /\ OverlayStarted
    /\ aPc = "done"
    /\ generation_params = <<[key |-> "top_k", value |-> PyStr(STR_7)]>>
    /\ final_gen_params["top_k"] = PyInt(7)
    /\ final_gen_params["temperature"] = PyFloat(2000)

\* The five command words, in lower case.
CommandWords == {<<113, 117, 105, 116>>, <<101, 120, 105, 116>>,
                 <<115, 116, 111, 112>>, <<110, 101, 119, 115>>,
                 <<117, 112, 100, 97, 116, 101>>}

\* h is the first message followed by whole turns: a user message and,
\* right after it, an assistant message.
TurnComplete(h) ==
    /\ Len(h) % 2 = 1
    /\ \A k \in 1..((Len(h) - 1) \div 2) :
          /\ h[2 * k].role = "user"
          /\ h[2 * k + 1].role = "assistant"

(***************************************************************************)
(* C23: every history that save_history writes in main_loop is             *)
(* turn-complete: each user message appended in the session is followed at *)
(* once by its assistant message, the last pair being the turn just        *)
(* completed; the list grows by two messages per completed turn, so a file *)
(* written earlier in the session is a prefix shorter by whole turns; an   *)
(* input that is a command (news, update, quit, exit, stop, in any case)   *)
(* appends nothing and is followed by no save.                             *)
(***************************************************************************)
C23_SavedHistoryTurnComplete ==
    [][/\ (saved' # saved \/ history_file' # history_file) =>
            /\ pc = "save"
            /\ saved' = messages
            /\ Len(saved') >= 3
            /\ TurnComplete(saved')
            /\ saved'[Len(saved') - 1].content = user_input
            /\ Lower(user_input) \notin CommandWords
            /\ (history_file = "json") =>
                  /\ Len(saved) < Len(saved')
                  /\ SubSeq(saved', 1, Len(saved)) = saved
                  /\ (Len(saved') - Len(saved)) % 2 = 0
       /\ (pc = "input" /\ Lower(user_input') \in CommandWords) =>
            /\ messages' = messages
            /\ saved' = saved
            /\ history_file' = history_file
            /\ pc' \in {"closing", "in_send"}
            /\ pc' = "in_send" => sRet' = "input"
       /\ Len(messages') # Len(messages) =>
            /\ pc \in {"load", "after_user_send", "stream"}
            /\ pc # "load" => Len(messages') = Len(messages) + 1]_vars

\* A turn has been saved: system, user, assistant.
C23_Witness ==
    /\ history_file = "json"
    /\ Len(saved) = 3
    /\ pc = "input"

\* The news command has been handled, with nothing appended or saved.
C23_WitnessCommand ==
    /\ Lower(user_input) = STR_news
    /\ pc = "input"
    /\ nmsg = 1
    /\ Len(messages) = 1
    /\ saved = <<>>

\* on_stream_done is queued and has not run.
DonePending == \E j \in 1..Len(idle) : idle[j].fn = "on_stream_done"

\* This step is on_send_clicked with a question: it shows the question and
\* calls handle_question_stream.
QuestionSent ==
    /\ Len(log') = Len(log) + 1
    /\ log'[Len(log')].tag = "user_question"

(***************************************************************************)
(* C24: at most one do_ai_stream worker runs at any time: a thread is      *)
(* started only when none runs; handle_question_stream called while        *)
(* is_generating is true starts no thread and changes nothing of the       *)
(* applet; is_generating is true from the start of a worker until its      *)
(* on_stream_done callback has run.                                        *)
(***************************************************************************)
C24_OneWorkerAtATime ==
    [][/\ (wPc # "none" \/ DonePending) => is_generating
       /\ (wPc' # "none" \/ DonePending') => is_generating'
       /\ generations' # generations =>
             wPc = "none" /\ ~DonePending /\ ~is_generating
       /\ (QuestionSent /\ is_generating) =>
             /\ UNCHANGED <<is_generating, stop_generation_event, events_set,
                            generations, idle>>
             /\ UNCHANGED workerVars
       /\ (is_generating /\ ~is_generating') =>
             /\ idle # <<>>
             /\ Head(idle).fn = "on_stream_done"
             /\ wPc = "none"]_vars

\* A question was sent from a second window while the worker started from
\* the first one is still running.
C24_Witness ==
    /\ is_generating
    /\ wPc \in {"pull", "check"}
    /\ wWindow = 1
    /\ main_window = 2
    /\ generations = 1
    /\ log # <<>>
    /\ log[Len(log)].tag = "user_question"

\* The on_stream_done callbacks in the queue.
DoneCallbacks == SelectSeq(idle, LAMBDA cb : cb.fn = "on_stream_done")

\* This step runs on_stream_done.
StreamDoneRuns == idle # <<>> /\ Head(idle).fn = "on_stream_done" /\ idle' = Tail(idle)

(***************************************************************************)
(* C25: every started generation eventually returns the applet to idle,    *)
(* whether the stream ends by itself or is stopped: on_stream_done runs,   *)
(* once for the generation; it resets is_generating, and in the window of  *)
(* the generation (while it is the one on screen) it enables the inputs    *)
(* and appends one user/assistant pair to the conversation history.        *)
(***************************************************************************)
C25_GenerationReturnsToIdle ==
    /\ (is_generating ~> (~is_generating /\ wPc = "none" /\ ~DonePending))
    /\ [][
           /\ Len(DoneCallbacks') <= 1
           /\ Len(DoneCallbacks') > Len(DoneCallbacks) =>
                 /\ wPc = "finish" /\ wPc' = "none"
                 /\ DoneCallbacks' = <<OnStreamDone(wWindow, wQuestion,
                                                    full_response)>>
           /\ StreamDoneRuns =>
                 /\ is_generating /\ ~is_generating'
                 /\ (Head(idle).window = main_window) =>
                       /\ inputs_enabled'
                       /\ conversation_history' =
                             conversation_history \o
                               <<Message("user", Head(idle).question),
                                 Message("assistant", Head(idle).text)>>
           /\ conversation_history' # conversation_history =>
                 StreamDoneRuns \/ conversation_history' = <<>>]_vars

\* A generation that was stopped has ended: its pair is in the history and
\* the inputs are enabled again.
C25_Witness ==
    /\ ~is_generating
    /\ generations = 1
    /\ was_stopped
    /\ wPc = "none"
    /\ Len(conversation_history) = 2
    /\ inputs_enabled
    /\ main_window = 1

(***************************************************************************)
(* C26: whenever no generation is in progress (is_generating is false, no  *)
(* worker runs, no on_stream_done is pending) the inputs of the window are *)
(* enabled: the entry is sensitive and the Send button is shown.           *)
(***************************************************************************)
C26_IdleMeansInputsEnabled ==
    (main_window # 0 /\ ~is_generating /\ wPc = "none" /\ ~DonePending)
        => inputs_enabled

\* The thread could not be started: nothing is generated, nothing is queued
\* any more, and the inputs stay disabled.
C26_StuckAfterThreadError ==
    /\ main_window # 0
    /\ ~is_generating
    /\ wPc = "none"
    /\ idle = <<>>
    /\ ~inputs_enabled
    /\ log # <<>>
    /\ log[Len(log)].text = STR_ThreadError

\* The worker is running; in its loop it still looks at the stop signal.
WorkerRuns == wPc \in {"header", "pull", "check", "finish"}
WorkerInLoop == wPc \in {"header", "pull", "check"}

(***************************************************************************)
(* C27: a stop request only affects the generation that runs when it is    *)
(* issued: every generation starts with a stop signal that is not set, the *)
(* signal of a running worker is set only by a stop issued during its run, *)
(* and a worker that met no such stop takes the whole stream and hands it  *)
(* over, whatever stops were issued before it started.                     *)
(***************************************************************************)
C27_StaleStopHasNoEffect ==
    /\ (WorkerInLoop /\ wStopEvent \in events_set) => stopped_at # NoStop
    /\ (WorkerRuns /\ was_stopped) => stopped_at # NoStop
    /\ (wPc = "header") => wStopEvent # 0
    /\ (wPc = "finish" /\ stopped_at = NoStop) =>
          /\ ~was_stopped
          /\ wPos = Len(wStream)
          /\ full_response = JoinAll(wStream)
    /\ \A j \in 1..Len(idle) :
          (idle[j].fn = "on_stream_done" /\ stopped_at = NoStop) =>
              idle[j].text = JoinAll(wStream)

\* The stop of the first generation was pressed after its worker had ended;
\* the second generation has taken its whole stream.
C27_Witness ==
    /\ generations = 2
    /\ 1 \in events_set
    /\ 2 \notin events_set
    /\ wPc = "finish"
    /\ wStopEvent = 2
    /\ ~was_stopped
    /\ Len(wStream) = 3
    /\ wPos = 3

\* The chunks the engine delivered before it raised, if it did.
BeforeError(chunks) ==
    LET errs == {j \in 1..Len(chunks) : chunks[j].kind = "error"}
    IN  IF errs = {} THEN chunks
        ELSE SubSeq(chunks, 1, (CHOOSE j \in errs : \A k \in errs : j <= k) - 1)

\* The engine raised, at the creation of the stream or at a chunk.
EngineRaised(run) ==
    run.raises \/ \E j \in 1..Len(run.chunks) : run.chunks[j].kind = "error"

\* The text fragments among chunks: every delta with a content for
\* ai_core.py, every non-empty content for ai.py.
FragmentsOf(module, chunks) ==
    LET kept == SelectSeq(chunks, LAMBDA c :
                    c.kind = "content" /\ (module = "ai_core" \/ c.text # <<>>))
    IN  [j \in 1..Len(kept) |-> kept[j].text]

\* What the claim lets ask yield in all.
AskYields ==
    IF self_llm = "none" THEN <<STR_NotLoaded>>
    ELSE FragmentsOf(ask_module,
                     IF aStream.raises THEN <<>> ELSE BeforeError(aStream.chunks))
           \o (IF EngineRaised(aStream) THEN <<STR_Sorry>> ELSE <<>>)

(***************************************************************************)
(* C28: ask (ai_core.py and ai.py) never lets an engine error reach its    *)
(* consumer: when the engine raises at the creation of the stream or at a  *)
(* fragment, ask has yielded the fragments received before, in order, then *)
(* yields one placeholder and ends; with no model loaded it yields the one *)
(* error fragment and calls the engine not at all.                         *)
(***************************************************************************)
C28_EngineErrorBecomesPlaceholder ==
    /\ aPc \in {"entry", "overlay", "create", "stream", "done"}
    /\ Len(yielded) <= Len(AskYields)
    /\ yielded = SubSeq(AskYields, 1, Len(yielded))
    /\ aPc = "done" => yielded = AskYields
    /\ engine_calls = (IF self_llm = "loaded"
                          /\ aPc \in {"stream", "done"} THEN 1 ELSE 0)
    /\ (aPc = "done" /\ ask_module = "ai_core" /\ ~aStream.raises) =>
          yielded = ask(self_llm, aStream.chunks)

\* The engine raised at its fourth chunk: two fragments, then the placeholder.
C28_Witness ==
    /\ aPc = "done"
    /\ self_llm = "loaded"
    /\ aPos = 4
    /\ yielded = <<<<97>>, <<98>>, STR_Sorry>>

\* The engine raised when the stream was created.
C28_WitnessCreate ==
    /\ aPc = "done"
    /\ self_llm = "loaded"
    /\ aStream.raises
    /\ engine_calls = 1
    /\ yielded = <<STR_Sorry>>

(***************************************************************************)
(* Claims about geocode_places.                                            *)
(***************************************************************************)

\* The positions of calls that are calls of the geocoder, for the place at
\* hand.
GeocodeAt == {i \in 1..Len(calls) : calls[i].op = "geocode"}

\* How many geocoder calls come before position i.
GeocodesBefore(i) == Cardinality({j \in GeocodeAt : j < i})

TransientErrors == {"GeocoderTimedOut", "GeocoderUnavailable", "RequestException"}

\* The calls made for the place at hand are in the order the retry loop
\* allows.
AttemptsInOrder ==
    /\ Cardinality(GeocodeAt) <= 3
    /\ \A i \in GeocodeAt :
          GeocodesBefore(i) > 0 =>
             /\ i >= 3
             /\ calls[i - 1].op = "sleep"
             /\ calls[i - 1].seconds = GeocodesBefore(i)
             /\ calls[i - 2].op = "geocode"
             /\ calls[i - 2].raises \in TransientErrors
    /\ \A i \in 1..Len(calls) :
          calls[i].op = "sleep" =>
             /\ i >= 2
             /\ calls[i - 1].op = "geocode"
             /\ calls[i - 1].raises \in TransientErrors
             /\ GeocodesBefore(i) < 3
    /\ (gPc = "for" /\ GeocodeAt # {}) =>
          LET last == CHOOSE i \in GeocodeAt : \A j \in GeocodeAt : j <= i
          IN  \/ calls[last].raises \notin TransientErrors
              \/ GeocodesBefore(last) = 2

\* C29: geocode_places calls the geocoder at most 3 times per place and
\* always terminates. A further attempt is made only after a timeout,
\* unavailable or request error and is preceded by a sleep of 1 second before
\* the second attempt and of 2 seconds before the third; a returned result or
\* any other exception ends the attempts for the place; nothing is slept
\* after the last failed attempt.
C29_BoundedAttemptsWithBackoff ==
    /\ []AttemptsInOrder
    /\ <>(gPc = "returned")

\* Three attempts have failed with transient errors and the place is given
\* up, after sleeps of 1 and 2 seconds.
C29_Witness ==
    /\ gPc = "for"
    /\ Cardinality(GeocodeAt) = 3
    /\ \A i \in GeocodeAt : calls[i].raises \in TransientErrors
    /\ calls[Len(calls)].op = "geocode"
    /\ \E i, j \in 1..Len(calls) :
          /\ calls[i] = SleepCall(1)
          /\ calls[j] = SleepCall(2)

\* The whole list has been worked through.
C29_WitnessReturned ==
    /\ gPc = "returned"
    /\ gI = Len(places)
    /\ gI > 0

\* The test the code applies to a location, written out for the locations
\* the geocoder gives here.
LooksLikePlace(loc) ==
    \/ \E j \in 1..Len(loc.address) : loc.address[j] = 44
    \/ \E k \in PlaceLikeWords :
          Contains(k, Lower(IF loc.raw.type # <<>> THEN loc.raw.type
                            ELSE loc.raw.class))

\* The step stores the coordinates of a location that passes the test under
\* the cleaned name, in the result and, unless sqlite fails, in the cache.
StoresAcceptedLocation ==
    \E loc \in Locations :
       /\ LooksLikePlace(loc)
       /\ coords' = Put(coords, p_clean, <<loc.latitude, loc.longitude>>)
       /\ \/ cache' = cache
          \/ cache' = Put(cache, p_clean,
                          [lat |-> loc.latitude, lon |-> loc.longitude,
                           resolved |-> loc.address])
       /\ Len(calls') > Len(calls)
       /\ calls'[Len(calls) + 1] = GeocodeCall("none")

\* The step is a cache hit: the result takes the cached coordinates, the
\* geocoder is not called and the cache is left alone.
ServedFromCache ==
    /\ gPc = "cache"
    /\ p_clean \in DOMAIN cache
    /\ coords' = Put(coords, p_clean, <<cache[p_clean].lat, cache[p_clean].lon>>)
    /\ cache' = cache
    /\ calls' = <<CacheRead>>
    /\ gPc' = "for"

\* C30: in geocode_places the cache is consulted before the geocoder; a
\* place whose cleaned name is in the cache is returned from the cache with
\* no geocoder call; the cache and the result are written only for a geocoder
\* result that passes the place-like test, so rejected, empty and failed
\* lookups change neither the result nor the cache.
C30_CacheFirstAcceptedOnly ==
    /\ [](/\ calls # <<>> => calls[1] = CacheRead
          /\ \A i \in GeocodeAt : i > 1
          /\ (GeocodeAt # {} /\ \A i \in 1..Len(calls) : calls[i] # CacheWrite("none"))
                => p_clean \notin DOMAIN cache)
    /\ [][/\ (gPc = "cache" /\ p_clean \in DOMAIN cache) => ServedFromCache
          /\ (coords' # coords \/ cache' # cache)
                => (ServedFromCache \/ StoresAcceptedLocation)
          /\ (cache' # cache)
                => (/\ p_clean \in DOMAIN coords'
                    /\ coords'[p_clean] = <<cache'[p_clean].lat, cache'[p_clean].lon>>
                    /\ calls'[Len(calls')] = CacheWrite("none"))
         ]_vars

\* A lookup has come back rejected or empty: the attempts are over and the
\* name is in neither the result nor the cache.
C30_Witness ==
    /\ calls = <<CacheRead, GeocodeCall("none")>>
    /\ success
    /\ p_clean \notin DOMAIN coords
    /\ p_clean \notin DOMAIN cache

\* A place has been served from the cache.
C30_WitnessHit ==
    /\ gPc = "for"
    /\ calls = <<CacheRead>>
    /\ p_clean \in DOMAIN cache
    /\ p_clean \in DOMAIN coords

\* A location has been accepted and written to both.
C30_WitnessStored ==
    /\ calls = <<CacheRead, GeocodeCall("none"), CacheWrite("none")>>
    /\ p_clean \in DOMAIN cache
    /\ p_clean \in DOMAIN coords


=============================================================================
